---- MODULE Spec2Model ----
(***************************************************************************)
(* Version governance of the delivery planning platform: the lifecycle of  *)
(* one project version (draft, review, submitted, won + lock flag), the    *)
(* role gates of rbac.py and the mutation handlers of the routers.  One    *)
(* action is one HTTP request, run in one database session that is         *)
(* committed when the handler returns and rolled back when it raises.      *)
(***************************************************************************)
EXTENDS Integers, Sequences, FiniteSets, TLC

VARIABLES
    version,             \* the ProjectVersion row of the project (project_versions)
    features,            \* features rows of the version, by id
    effort_allocations,  \* effort_allocations rows, by feature id, in insertion order
    team_members,        \* team_members rows of the version, by id
    role_default_rates,  \* role_default_rates rows (organization level), by id
    sprint_plan_rows,    \* sprint_plan_rows of the version, by sort_order
    estimation_history,  \* estimation_history rows, in insertion order
    justification_logs,  \* justification_logs rows, in insertion order
    audit_logs,          \* audit_logs rows, in insertion order
    next_id,             \* the autoincrement counters of features, members, rates
    sessions,            \* the requests in flight: what each has read and will write
    call                 \* the engine call being evaluated: function, arguments, result

vars == <<version, features, effort_allocations, team_members, role_default_rates,
          sprint_plan_rows, estimation_history, justification_logs, audit_logs,
          next_id, sessions, call>>

(***************************************************************************)
(* Bounds and input domains.                                               *)
(***************************************************************************)
\* rows the lifecycle specification lets the audit log grow to
MaxAudit == 4
\* rows the full specifications let the audit log grow to
MaxAuditAll == 4
\* rows the estimation history may grow to
MaxHistory == 2
\* features, team members and default rates ever created
MaxFeatures == 1
MaxMembers == 1
MaxRates == 1

NULL == "NULL"

\* users.id of the callers; each holds the roles user_roles gives it
Users == {"u_admin", "u_dm", "u_ba", "u_pm", "u_ta", "u_fin", "u_viewer"}

\* callers of the feature requests: an admin, an analyst, an architect, a viewer
Estimators == {"u_admin", "u_ba", "u_ta", "u_viewer"}

\* callers of the full set of requests: an admin, a finance reviewer, a viewer
Callers == {"u_admin", "u_fin", "u_viewer"}

\* datetime.now(timezone.utc) as read by a handler
Times == {"t1", "t2"}

\* project_versions.id of the version create_project makes
CurrentVersionId == 1

\* version_id path parameters tried by callers: the version and a missing one
VersionIds == {CurrentVersionId, CurrentVersionId + 1}

\* target_status query values tried by callers
Targets == {"draft", "review", "submitted", "won", "WON", "archived"}

\* reason query values tried by callers of unlock (NULL: parameter absent)
Reasons == {NULL, "", "client renegotiation"}

(***************************************************************************)
(* auth/deps.py and auth/rbac.py                                           *)
(***************************************************************************)
ROLE_NAMES ==
    {"admin", "delivery_manager", "business_analyst", "project_manager",
     "technical_architect", "finance_reviewer", "viewer"}

\* get_user_roles: the names of the roles joined to the user
get_user_roles(u) ==
    CASE u = "u_admin"  -> {"admin"}
      [] u = "u_dm"     -> {"delivery_manager"}
      [] u = "u_ba"     -> {"business_analyst"}
      [] u = "u_pm"     -> {"project_manager", "viewer"}
      [] u = "u_ta"     -> {"technical_architect"}
      [] u = "u_fin"    -> {"finance_reviewer"}
      [] u = "u_viewer" -> {"viewer"}

\* str.lower() on the strings the model uses
lower(s) ==
    CASE s = "WON" -> "won"
      [] s = "QA"  -> "qa"
      [] s = "Developer" -> "developer"
      [] s = "Architect" -> "architect"
      [] s = "Senior Developer" -> "senior developer"
      [] s = "Junior QA" -> "junior qa"
      [] OTHER     -> s

can_edit_team(roles) ==
    \E r \in roles : lower(r) \in {"admin", "delivery_manager"}

\* a feature gate that leaves the analyst out
can_edit_features_without_analyst(roles) ==
    \E r \in roles : lower(r) \in {"admin", "delivery_manager"}

can_edit_features(roles) ==
    \E r \in roles : lower(r) \in {"admin", "delivery_manager", "business_analyst"}

can_modify_effort(roles) ==
    \E r \in roles : lower(r) \in {"admin", "technical_architect"}

\* a lock gate that lets every editing role through
can_lock_project_as_editor(roles) ==
    \E r \in roles : lower(r) \in {"admin", "delivery_manager", "business_analyst"}

can_lock_project(roles) ==
    \E r \in roles : lower(r) \in {"admin", "finance_reviewer"}

\* an unlock gate that lets the locking roles through
can_unlock_project_as_locker(roles) ==
    \E r \in roles : lower(r) \in {"admin", "finance_reviewer"}

can_unlock_project(roles) ==
    \E r \in roles : lower(r) = "admin"

can_delete_project(roles) ==
    \E r \in roles : lower(r) \in {"admin", "delivery_manager", "business_analyst",
                                    "finance_reviewer"}

(***************************************************************************)
(* schemas/project.py                                                      *)
(***************************************************************************)
\* a transition table that lets draft skip review
STATUS_TRANSITIONS_skipping_review(current) ==
    CASE current = "draft"     -> {"review", "submitted"}
      [] current = "review"    -> {"submitted", "draft"}
      [] current = "submitted" -> {"won", "review"}
      [] current = "won"       -> {}
      [] OTHER                 -> {}

\* STATUS_TRANSITIONS.get(current, [])
STATUS_TRANSITIONS(current) ==
    CASE current = "draft"     -> {"review"}
      [] current = "review"    -> {"submitted", "draft"}
      [] current = "submitted" -> {"won", "review"}
      [] current = "won"       -> {}
      [] OTHER                 -> {}

(***************************************************************************)
(* Values shared by the handlers.                                          *)
(***************************************************************************)
\* Optional[T]: None is the empty set, a value v is {v}
None == {}
Some(v) == {v}
is_not_None(o) == o # {}
value(o) == CHOOSE v \in o : TRUE

\* raise HTTPException(status_code, detail): what the caller is told
HTTPException(status_code, detail) ==
    [status_code |-> status_code, detail |-> detail]

\* the handler returned
OK == [status_code |-> 200, detail |-> "ok"]

\* the request was answered with an HTTPException
rejected(response) == response.status_code # OK.status_code

\* AuditLog(...) row as the handlers build it
AuditLog(u, action, entity_type, entity_id, new_value, reason) ==
    [user_id |-> u, action |-> action, entity_type |-> entity_type,
     entity_id |-> entity_id, new_value |-> new_value, reason |-> reason]

\* the project_versions row read after delete_project removed it: no row
no_version ==
    [status |-> NULL, is_locked |-> FALSE, locked_by |-> NULL, locked_at |-> NULL,
     contingency_pct |-> 0, management_reserve_pct |-> 0, notes |-> NULL]

\* _get_version finds the latest version of the project (else 404)
project_found == version # no_version

\* _get_version of versions.py finds a row (else 404)
version_found(vid) == project_found /\ vid = CurrentVersionId

(***************************************************************************)
(* routers/versions.py                                                     *)
(***************************************************************************)
\* body of PATCH .../versions/{version_id}: the fields a caller may send
VersionUpdates ==
    { [contingency_pct |-> Some(10), management_reserve_pct |-> None, notes |-> NULL],
      [contingency_pct |-> None, management_reserve_pct |-> Some(5), notes |-> "revised"] }

\* a lock that forgets who locked
won_without_actor(v, u, now) ==
    [v EXCEPT !.status = "won", !.is_locked = TRUE, !.locked_at = now]

\* lock_version: the version row marked won and locked by the caller
won(v, u, now) ==
    [v EXCEPT !.status = "won", !.is_locked = TRUE, !.locked_by = u, !.locked_at = now]

\* transition_status: the version row in the target status, locked if it is won
entered(v, target, u, now) ==
    IF target = "won"
    THEN [v EXCEPT !.status = target, !.is_locked = TRUE,
                   !.locked_by = u, !.locked_at = now]
    ELSE [v EXCEPT !.status = target]

\* an unlock that leaves the status alone
unlocked_keeping_status(v) ==
    [v EXCEPT !.is_locked = FALSE, !.locked_by = NULL, !.locked_at = NULL]

\* unlock_version: the version row unlocked and back in submitted
unlocked(v) ==
    [v EXCEPT !.is_locked = FALSE, !.locked_by = NULL, !.locked_at = NULL,
              !.status = "submitted"]

update_version_response(u, vid, d) ==
    LET roles == get_user_roles(u)
    IN  IF ~version_found(vid) THEN HTTPException(404, "not_found")
        ELSE IF version.is_locked THEN HTTPException(400, "locked")
        ELSE IF ~can_edit_team(roles) THEN HTTPException(403, "forbidden")
        ELSE OK

update_version(u, vid, d) ==
    LET roles == get_user_roles(u)
        op == "update_version"
    IN  IF rejected(update_version_response(u, vid, d)) THEN UNCHANGED vars
        ELSE
            /\ version' =
                 [version EXCEPT
                    !.contingency_pct =
                        IF is_not_None(d.contingency_pct)
                        THEN value(d.contingency_pct) ELSE @,
                    !.management_reserve_pct =
                        IF is_not_None(d.management_reserve_pct)
                        THEN value(d.management_reserve_pct) ELSE @,
                    !.notes = IF d.notes # NULL THEN d.notes ELSE @]
            /\ audit_logs' = Append(audit_logs,
                 AuditLog(u, op, "project_version", vid, NULL, NULL))
            /\ UNCHANGED <<features, effort_allocations, team_members,
                           role_default_rates, sprint_plan_rows,
                           estimation_history, justification_logs, next_id>>

transition_status_response(u, vid, target_status) ==
    LET roles == get_user_roles(u)
        current == version.status
        allowed == STATUS_TRANSITIONS(lower(current))
        target == lower(target_status)
    IN  IF ~version_found(vid) THEN HTTPException(404, "not_found")
        ELSE IF version.is_locked THEN HTTPException(400, "locked")
        ELSE IF target \notin allowed THEN HTTPException(400, "invalid_transition")
        ELSE IF target = "won" /\ ~can_lock_project(roles)
             THEN HTTPException(403, "forbidden")
        ELSE IF target # "won" /\ ~can_edit_features(roles)
             THEN HTTPException(403, "forbidden")
        ELSE OK

transition_status(u, vid, target_status) ==
    LET target == lower(target_status)
    IN  IF rejected(transition_status_response(u, vid, target_status)) THEN UNCHANGED vars
        ELSE \E now \in Times :
            /\ version' = entered(version, target, u, now)
            /\ audit_logs' = Append(audit_logs,
                 AuditLog(u, "status_transition", "project_version", vid, target, NULL))
            /\ UNCHANGED <<features, effort_allocations, team_members,
                           role_default_rates, sprint_plan_rows,
                           estimation_history, justification_logs, next_id>>

lock_version_response(u, vid) ==
    LET roles == get_user_roles(u)
    IN  IF ~can_lock_project(roles) THEN HTTPException(403, "forbidden")
        ELSE IF ~version_found(vid) THEN HTTPException(404, "not_found")
        ELSE IF version.is_locked THEN HTTPException(400, "locked")
        ELSE IF lower(version.status) # "submitted"
             THEN HTTPException(400, "not_submitted")
        ELSE OK

lock_version(u, vid) ==
    LET roles == get_user_roles(u)
        op == "lock_version"
    IN  IF rejected(lock_version_response(u, vid)) THEN UNCHANGED vars
        ELSE \E now \in Times :
            /\ version' = won(version, u, now)
            /\ audit_logs' = Append(audit_logs,
                 AuditLog(u, "lock", "project_version", vid, NULL, NULL))
            /\ UNCHANGED <<features, effort_allocations, team_members,
                           role_default_rates, sprint_plan_rows,
                           estimation_history, justification_logs, next_id>>

unlock_version_response(u, vid, reason) ==
    LET roles == get_user_roles(u)
    IN  \* reason: str = Query(..., min_length=1)
        IF reason = NULL \/ Len(reason) < 1 THEN HTTPException(422, "validation")
        ELSE IF ~can_unlock_project(roles) THEN HTTPException(403, "forbidden")
        ELSE IF ~version_found(vid) THEN HTTPException(404, "not_found")
        ELSE IF ~version.is_locked THEN HTTPException(400, "not_locked")
        ELSE OK

unlock_version(u, vid, reason) ==
    LET roles == get_user_roles(u)
        op == "unlock_version"
    IN  IF rejected(unlock_version_response(u, vid, reason)) THEN UNCHANGED vars
        ELSE
            /\ version' = unlocked(version)
            /\ audit_logs' = Append(audit_logs,
                 AuditLog(u, "unlock", "project_version", vid, NULL, reason))
            /\ UNCHANGED <<features, effort_allocations, team_members,
                           role_default_rates, sprint_plan_rows,
                           estimation_history, justification_logs, next_id>>

(***************************************************************************)
(* config.py and engine/calculator.py                                      *)
(***************************************************************************)
\* Settings.effort_override_threshold, in percent
effort_override_threshold == 15

Abs(x) == IF x < 0 THEN -x ELSE x

\* a threshold test that fires at the threshold itself
effort_override_reaches_threshold(previous_effort, new_effort) ==
    IF previous_effort = 0
    THEN new_effort # 0
    ELSE Abs(new_effort - previous_effort) * 100
           >= effort_override_threshold * Abs(previous_effort)

\* a threshold test that judges increases only (no abs)
effort_override_increase_only(previous_effort, new_effort) ==
    IF previous_effort = 0
    THEN new_effort # 0
    ELSE (new_effort - previous_effort) * 100
           > effort_override_threshold * Abs(previous_effort)

\* CalculationEngine.effort_override_exceeds_threshold on whole hours:
\* abs((new - prev) / prev * 100) > threshold, with the division cleared
effort_override_exceeds_threshold(previous_effort, new_effort) ==
    IF previous_effort = 0
    THEN new_effort # 0
    ELSE Abs(new_effort - previous_effort) * 100
           > effort_override_threshold * Abs(previous_effort)

(***************************************************************************)
(* Strings.                                                                *)
(***************************************************************************)
\* a strip that trims nothing
strip_nothing(s) == s

\* str.strip() on the strings the model uses
strip(s) ==
    CASE s = "   scope    " -> "scope"
      [] s = " QA "         -> "QA"
      [] s = " qa "         -> "qa"
      [] s = "  "           -> ""
      [] OTHER              -> s

\* justification query values tried by callers: absent, empty, 5 characters,
\* 12 characters of which 5 remain after trimming, 12 characters
Justifications ==
    { None, Some(""), Some("scope"), Some("   scope    "), Some("scope change") }

(***************************************************************************)
(* routers/features.py                                                     *)
(***************************************************************************)
\* EffortAllocation rows built from EffortAllocationCreate items
Allocation(role, allocation_pct, effort_hours) ==
    [role |-> role, allocation_pct |-> allocation_pct, effort_hours |-> effort_hours]

\* a FeatureTaskCreate item as stored in features.tasks
Task(name, effort_hours, role) ==
    [name |-> name, effort_hours |-> effort_hours, role |-> role]

\* Decimal.quantize(Decimal("0.01")) of num/den (ROUND_HALF_EVEN), in hundredths
quantize(num, den) ==
    LET q == (num * 100) \div den
        r == (num * 100) % den
    IN  IF 2 * r > den \/ (2 * r = den /\ q % 2 = 1) THEN q + 1 ELSE q

\* the roles of the tasks, in order of first appearance (dict insertion order)
RECURSIVE task_roles(_)
task_roles(tasks) ==
    IF tasks = <<>> THEN <<>>
    ELSE LET init == task_roles(SubSeq(tasks, 1, Len(tasks) - 1))
             t == tasks[Len(tasks)]
             r == IF strip(t.role) = "" THEN "Unassigned" ELSE strip(t.role)
         IN  IF \E i \in 1..Len(init) : init[i] = r THEN init ELSE Append(init, r)

RECURSIVE role_hours(_, _)
role_hours(tasks, r) ==
    IF tasks = <<>> THEN 0
    ELSE LET t == Head(tasks)
             tr == IF strip(t.role) = "" THEN "Unassigned" ELSE strip(t.role)
         IN  (IF tr = r THEN t.effort_hours ELSE 0) + role_hours(Tail(tasks), r)

RECURSIVE sum_hours(_)
sum_hours(tasks) ==
    IF tasks = <<>> THEN 0 ELSE Head(tasks).effort_hours + sum_hours(Tail(tasks))

\* update_feature: effort_allocations derived from the tasks, one per role;
\* allocation_pct is kept in hundredths of a percent
derived_allocations(tasks) ==
    LET rs == task_roles(tasks)
        total_hrs == IF sum_hours(tasks) = 0 THEN 1 ELSE sum_hours(tasks)
    IN  [i \in 1..Len(rs) |->
            Allocation(rs[i],
                       quantize(role_hours(tasks, rs[i]) * 100, total_hrs),
                       role_hours(tasks, rs[i]))]

\* a refresh that keeps the changes made to the instance since the last flush
refresh_keeping_changes(row, instance) ==
    instance

\* Session.refresh(instance): the instance's attributes are expired, which
\* drops the changes made to them since the last flush, and are then loaded
\* again from the row
refresh(row, instance) ==
    row

\* role strings used by requests
RoleDev == "Developer"
RoleQA == "QA"

\* bodies of POST .../features tried by callers
FeatureCreates ==
    { [name |-> "checkout", effort_hours |-> 100,
       effort_allocations |-> <<>>, tasks |-> <<>>],
      [name |-> "checkout", effort_hours |-> 0,
       effort_allocations |-> <<Allocation(RoleQA, 10000, 40)>>,
       tasks |-> <<Task("test", 40, RoleQA)>>] }

\* PATCH .../features/{feature_id} as tried by callers: the body and the
\* justification query parameter
FeatureUpdate(name, hours, allocations, tasks) ==
    [name |-> name, effort_hours |-> hours,
     effort_allocations |-> allocations, tasks |-> tasks]

FeatureUpdates ==
    { [data |-> FeatureUpdate(NULL, Some(h), None, None), justification |-> j] :
        h \in {110, 130}, j \in Justifications }
    \cup
    { [data |-> FeatureUpdate(NULL, Some(115), None, None),
       justification |-> Some("scope change")],
      \* FeatureUpdate.effort_hours has no lower bound
      [data |-> FeatureUpdate(NULL, Some(0 - 50), None, None),
       justification |-> Some("scope change")] }
    \cup
    { [data |-> d, justification |-> None] : d \in
        { FeatureUpdate(NULL, Some(115), None, None),
          FeatureUpdate("payments", None, None, None),
          FeatureUpdate(NULL, None, Some(<<Allocation(RoleDev, 10000, 60)>>), None) } }
    \cup
    { [data |-> FeatureUpdate(NULL, Some(130), None,
                   Some(<<Task("build", 20, RoleDev), Task("test", 10, " QA ")>>)),
       justification |-> Some("scope change")] }

\* feature_id path parameters tried by callers: the first feature and the next
FeatureIds == 1..(MaxFeatures + 1)

add_feature_response(u, d) ==
    LET roles == get_user_roles(u)
    IN  IF ~can_edit_features(roles) THEN HTTPException(403, "forbidden")
        ELSE IF ~project_found THEN HTTPException(404, "not_found")
        ELSE IF version.is_locked THEN HTTPException(400, "locked")
        ELSE OK

add_feature(u, d) ==
    LET roles == get_user_roles(u)
        op == "add_feature"
        id == next_id.feature + 1
    IN  IF rejected(add_feature_response(u, d)) THEN UNCHANGED vars
        ELSE
            /\ next_id.feature < MaxFeatures
            /\ next_id' = [next_id EXCEPT !.feature = id]
            /\ features' = [i \in DOMAIN features \cup {id} |->
                 IF i = id
                 THEN [name |-> d.name, effort_hours |-> d.effort_hours,
                       tasks |-> IF d.tasks # <<>> THEN Some(d.tasks) ELSE None]
                 ELSE features[i]]
            /\ effort_allocations' = [i \in DOMAIN features \cup {id} |->
                 IF i = id THEN d.effort_allocations ELSE effort_allocations[i]]
            /\ audit_logs' = Append(audit_logs,
                 AuditLog(u, op, "feature", id, d.name, NULL))
            /\ UNCHANGED <<version, team_members, role_default_rates,
                           sprint_plan_rows, estimation_history, justification_logs>>

\* _get_version of features.py: the latest version of the project, unlocked
get_version_response ==
    IF ~project_found THEN HTTPException(404, "not_found")
    ELSE IF version.is_locked THEN HTTPException(400, "locked")
    ELSE OK

\* update_feature after the feature row is loaded: the effort gate and the
\* role checks, on the row the session read
effort_gate_response(u, feature, d, justification) ==
    LET roles == get_user_roles(u)
        exceeds == effort_override_exceeds_threshold(feature.effort_hours,
                                                     value(d.effort_hours))
        lowered == {lower(r) : r \in roles}
    IN  IF is_not_None(d.effort_hours)
        THEN IF ~can_modify_effort(roles) /\ ~can_edit_features(roles)
             THEN HTTPException(403, "forbidden")
             ELSE IF exceeds /\ "technical_architect" \notin lowered
                             /\ "admin" \notin lowered
             THEN HTTPException(403, "approval_required")
             ELSE IF exceeds /\ (justification = None
                                 \/ value(justification) = ""
                                 \/ Len(strip(value(justification))) < 10)
             THEN HTTPException(400, "justification_required")
             ELSE OK
        ELSE IF ~can_edit_features(roles) THEN HTTPException(403, "forbidden")
        ELSE OK

update_feature_response(u, feature_id, d, justification) ==
    IF rejected(get_version_response) THEN get_version_response
    ELSE IF feature_id \notin DOMAIN features THEN HTTPException(404, "not_found")
    ELSE effort_gate_response(u, features[feature_id], d, justification)

\* rows of the sequence that are not among the given rows
rows_not_in(rows, deleted) ==
    SelectSeq(rows, LAMBDA r : \A i \in 1..Len(deleted) : deleted[i] # r)

\* what an accepted update_feature writes when its session is flushed and
\* committed: feature is the row the session read and loaded the
\* effort_allocations it loaded with it
update_feature_writes(u, feature_id, d, justification, feature, loaded) ==
    LET roles == get_user_roles(u)
        op == "update_feature"
        exceeds == effort_override_exceeds_threshold(feature.effort_hours,
                                                     value(d.effort_hours))
        \* the instance after the assignments of the handler
        instance ==
            [name |-> IF d.name # NULL THEN d.name ELSE feature.name,
             effort_hours |-> IF is_not_None(d.effort_hours)
                              THEN value(d.effort_hours) ELSE feature.effort_hours,
             tasks |-> IF is_not_None(d.tasks) THEN d.tasks ELSE feature.tasks]
        \* db.delete(a) for each loaded allocation: the rows still there go
        kept == rows_not_in(effort_allocations[feature_id], loaded)
        replaced == IF is_not_None(d.effort_allocations)
                    THEN kept \o value(d.effort_allocations)
                    ELSE effort_allocations[feature_id]
        \* rows added by the first block are not in the loaded collection
        \* the second block deletes
        added == IF is_not_None(d.effort_allocations)
                 THEN value(d.effort_allocations) ELSE <<>>
    IN  /\ is_not_None(d.effort_hours) => Len(estimation_history) < MaxHistory
        /\ justification_logs' =
             IF is_not_None(d.effort_hours) /\ exceeds
             THEN Append(justification_logs,
                    [feature_id |-> feature_id,
                     previous_effort |-> feature.effort_hours,
                     new_effort |-> value(d.effort_hours),
                     justification |-> value(justification),
                     created_by |-> u])
             ELSE justification_logs
        /\ estimation_history' =
             IF is_not_None(d.effort_hours)
             THEN Append(estimation_history,
                    [feature_id |-> feature_id,
                     previous_effort |-> feature.effort_hours,
                     new_effort |-> value(d.effort_hours),
                     changed_by |-> u,
                     authority |-> IF can_modify_effort(roles)
                                   THEN "technical_architect"
                                   ELSE "business_analyst"])
             ELSE estimation_history
        /\ effort_allocations' = [effort_allocations EXCEPT ![feature_id] =
             IF is_not_None(d.tasks)
             THEN kept \o added \o derived_allocations(value(d.tasks))
             ELSE replaced]
        /\ audit_logs' = Append(audit_logs,
             AuditLog(u, op, "feature", feature_id, NULL, NULL))
        /\ features' = [features EXCEPT ![feature_id] =
             refresh(features[feature_id], instance)]
        /\ UNCHANGED <<version, team_members, role_default_rates,
                       sprint_plan_rows, next_id>>

update_feature(u, feature_id, d, justification) ==
    IF rejected(update_feature_response(u, feature_id, d, justification))
    THEN UNCHANGED vars
    ELSE update_feature_writes(u, feature_id, d, justification,
                               features[feature_id], effort_allocations[feature_id])

\* rows of a log that do not reference the feature (ON DELETE CASCADE)
without_feature(log, feature_id) ==
    SelectSeq(log, LAMBDA r : r.feature_id # feature_id)

delete_feature_response(u, feature_id) ==
    LET roles == get_user_roles(u)
        kept == DOMAIN features \ {feature_id}
    IN  IF ~can_edit_features(roles) THEN HTTPException(403, "forbidden")
        ELSE IF ~project_found THEN HTTPException(404, "not_found")
        ELSE IF version.is_locked THEN HTTPException(400, "locked")
        ELSE IF feature_id \notin DOMAIN features THEN HTTPException(404, "not_found")
        ELSE OK

delete_feature(u, feature_id) ==
    LET roles == get_user_roles(u)
        op == "delete_feature"
        kept == DOMAIN features \ {feature_id}
    IN  IF rejected(delete_feature_response(u, feature_id)) THEN UNCHANGED vars
        ELSE
            /\ features' = [i \in kept |-> features[i]]
            /\ effort_allocations' = [i \in kept |-> effort_allocations[i]]
            /\ estimation_history' = without_feature(estimation_history, feature_id)
            /\ justification_logs' = without_feature(justification_logs, feature_id)
            /\ audit_logs' = Append(audit_logs,
                 AuditLog(u, op, "feature", feature_id, NULL, NULL))
            /\ UNCHANGED <<version, team_members, role_default_rates,
                           sprint_plan_rows, next_id>>

(***************************************************************************)
(* routers/team.py                                                         *)
(***************************************************************************)
\* bodies of POST .../team tried by callers
TeamMemberCreates ==
    { [role |-> RoleQA, cost_rate_per_day |-> None, billing_rate_per_day |-> None],
      [role |-> RoleDev, cost_rate_per_day |-> Some(600),
       billing_rate_per_day |-> Some(900)] }

\* bodies of PATCH .../team/{member_id}: model_dump(exclude_unset=True)
TeamMemberUpdates ==
    { [cost_rate_per_day |-> Some(700)], [role |-> RoleDev] }

\* member_id path parameters tried by callers
MemberIds == 1..(MaxMembers + 1)

\* the role_default_rates row whose role equals the given one, if any
default_row(role) ==
    {role_default_rates[i] : i \in {j \in DOMAIN role_default_rates :
                                        role_default_rates[j].role = role}}

add_team_member_response(u, d) ==
    LET roles == get_user_roles(u)
        row == default_row(d.role)
        cost_rate == IF d.cost_rate_per_day = None /\ row # {}
                     THEN Some(value(row).cost_rate_per_day)
                     ELSE d.cost_rate_per_day
        billing_rate == IF d.billing_rate_per_day = None /\ row # {}
                        THEN Some(value(row).billing_rate_per_day)
                        ELSE d.billing_rate_per_day
    IN  IF ~can_edit_team(roles) THEN HTTPException(403, "forbidden")
        ELSE IF ~project_found THEN HTTPException(404, "not_found")
        ELSE IF version.is_locked THEN HTTPException(400, "locked")
        ELSE OK

add_team_member(u, d) ==
    LET roles == get_user_roles(u)
        op == "add_team_member"
        id == next_id.member + 1
        row == default_row(d.role)
        cost_rate == IF d.cost_rate_per_day = None /\ row # {}
                     THEN Some(value(row).cost_rate_per_day)
                     ELSE d.cost_rate_per_day
        billing_rate == IF d.billing_rate_per_day = None /\ row # {}
                        THEN Some(value(row).billing_rate_per_day)
                        ELSE d.billing_rate_per_day
    IN  IF rejected(add_team_member_response(u, d)) THEN UNCHANGED vars
        ELSE
            /\ next_id.member < MaxMembers
            /\ next_id' = [next_id EXCEPT !.member = id]
            /\ team_members' = [i \in DOMAIN team_members \cup {id} |->
                 IF i = id
                 THEN [role |-> d.role, cost_rate_per_day |-> cost_rate,
                       billing_rate_per_day |-> billing_rate,
                       \* columns no handler writes, and the schema defaults
                       monthly_cost_rate |-> None, billing_rate |-> None,
                       working_days_per_month |-> 20, hours_per_day |-> 8,
                       utilization_pct |-> 80]
                 ELSE team_members[i]]
            /\ audit_logs' = Append(audit_logs,
                 AuditLog(u, op, "team_member", id, d.role, NULL))
            /\ UNCHANGED <<version, features, effort_allocations, role_default_rates,
                           sprint_plan_rows, estimation_history, justification_logs>>

update_team_member_response(u, member_id, d) ==
    LET roles == get_user_roles(u)
        member == team_members[member_id]
    IN  IF ~can_edit_team(roles) THEN HTTPException(403, "forbidden")
        ELSE IF ~project_found THEN HTTPException(404, "not_found")
        ELSE IF version.is_locked THEN HTTPException(400, "locked")
        ELSE IF member_id \notin DOMAIN team_members THEN HTTPException(404, "not_found")
        ELSE OK

update_team_member(u, member_id, d) ==
    LET roles == get_user_roles(u)
        op == "update_team_member"
        member == team_members[member_id]
    IN  IF rejected(update_team_member_response(u, member_id, d)) THEN UNCHANGED vars
        ELSE
            /\ team_members' = [team_members EXCEPT ![member_id] =
                 [k \in DOMAIN member |-> IF k \in DOMAIN d THEN d[k] ELSE member[k]]]
            /\ audit_logs' = Append(audit_logs,
                 AuditLog(u, op, "team_member", member_id, NULL, NULL))
            /\ UNCHANGED <<version, features, effort_allocations, role_default_rates,
                           sprint_plan_rows, estimation_history, justification_logs,
                           next_id>>

delete_team_member_response(u, member_id) ==
    LET roles == get_user_roles(u)
    IN  IF ~can_edit_team(roles) THEN HTTPException(403, "forbidden")
        ELSE IF ~project_found THEN HTTPException(404, "not_found")
        ELSE IF version.is_locked THEN HTTPException(400, "locked")
        ELSE IF member_id \notin DOMAIN team_members THEN HTTPException(404, "not_found")
        ELSE OK

delete_team_member(u, member_id) ==
    LET roles == get_user_roles(u)
        op == "delete_team_member"
    IN  IF rejected(delete_team_member_response(u, member_id)) THEN UNCHANGED vars
        ELSE
            /\ team_members' = [i \in DOMAIN team_members \ {member_id} |-> team_members[i]]
            /\ audit_logs' = Append(audit_logs,
                 AuditLog(u, op, "team_member", member_id, NULL, NULL))
            /\ UNCHANGED <<version, features, effort_allocations, role_default_rates,
                           sprint_plan_rows, estimation_history, justification_logs,
                           next_id>>

(***************************************************************************)
(* routers/sprint_plan.py                                                  *)
(***************************************************************************)
\* bodies of PUT .../sprint-plan tried by callers: the rows of the plan
SprintPlans ==
    { <<>>,
      <<[type |-> "phase", phase |-> "uat", values |-> <<RoleQA, 1>>]>> }

save_sprint_plan_response(u, rows) ==
    LET roles == get_user_roles(u)
    IN  IF ~can_edit_team(roles) /\ ~can_edit_features(roles)
        THEN HTTPException(403, "forbidden")
        ELSE IF ~project_found THEN HTTPException(404, "not_found")
        ELSE IF version.is_locked THEN HTTPException(403, "locked")
        ELSE OK

save_sprint_plan(u, rows) ==
    LET roles == get_user_roles(u)
        op == "save_sprint_plan"
    IN  IF rejected(save_sprint_plan_response(u, rows)) THEN UNCHANGED vars
        ELSE
            /\ sprint_plan_rows' = rows
            /\ UNCHANGED <<version, features, effort_allocations, team_members,
                           role_default_rates, estimation_history, justification_logs,
                           audit_logs, next_id>>

(***************************************************************************)
(* routers/bu_rates.py                                                     *)
(***************************************************************************)
\* bodies of POST /bu-rates tried by callers
RoleDefaultRateCreates ==
    { [role |-> " QA ", cost_rate_per_day |-> 500, billing_rate_per_day |-> 800] }

\* bodies of PATCH /bu-rates/{rate_id}
RoleDefaultRateUpdates ==
    { [cost_rate_per_day |-> 550] }

\* rate_id path parameters tried by callers
RateIds == 1..(MaxRates + 1)

create_bu_rate_response(u, d) ==
    LET roles == get_user_roles(u)
        \* RoleDefaultRateCreate.strip_role
        role == strip(d.role)
    IN  IF ~can_edit_team(roles) THEN HTTPException(403, "forbidden")
        ELSE IF default_row(role) # {} THEN HTTPException(400, "duplicate")
        ELSE OK

create_bu_rate(u, d) ==
    LET roles == get_user_roles(u)
        op == "create_bu_rate"
        id == next_id.rate + 1
        \* RoleDefaultRateCreate.strip_role
        role == strip(d.role)
    IN  IF rejected(create_bu_rate_response(u, d)) THEN UNCHANGED vars
        ELSE
            /\ next_id.rate < MaxRates
            /\ next_id' = [next_id EXCEPT !.rate = id]
            /\ role_default_rates' = [i \in DOMAIN role_default_rates \cup {id} |->
                 IF i = id
                 THEN [role |-> role, cost_rate_per_day |-> d.cost_rate_per_day,
                       billing_rate_per_day |-> d.billing_rate_per_day]
                 ELSE role_default_rates[i]]
            /\ UNCHANGED <<version, features, effort_allocations, team_members,
                           sprint_plan_rows, estimation_history, justification_logs,
                           audit_logs>>

update_bu_rate_response(u, rate_id, d) ==
    LET roles == get_user_roles(u)
        rate == role_default_rates[rate_id]
        instance == [k \in DOMAIN rate |-> IF k \in DOMAIN d THEN d[k] ELSE rate[k]]
    IN  IF ~can_edit_team(roles) THEN HTTPException(403, "forbidden")
        ELSE IF rate_id \notin DOMAIN role_default_rates
             THEN HTTPException(404, "not_found")
        ELSE OK

update_bu_rate(u, rate_id, d) ==
    LET roles == get_user_roles(u)
        op == "update_bu_rate"
        rate == role_default_rates[rate_id]
        instance == [k \in DOMAIN rate |-> IF k \in DOMAIN d THEN d[k] ELSE rate[k]]
    IN  IF rejected(update_bu_rate_response(u, rate_id, d)) THEN UNCHANGED vars
        ELSE
            /\ role_default_rates' =
                 [role_default_rates EXCEPT ![rate_id] = refresh(rate, instance)]
            /\ UNCHANGED <<version, features, effort_allocations, team_members,
                           sprint_plan_rows, estimation_history, justification_logs,
                           audit_logs, next_id>>

delete_bu_rate_response(u, rate_id) ==
    LET roles == get_user_roles(u)
    IN  IF ~can_edit_team(roles) THEN HTTPException(403, "forbidden")
        ELSE IF rate_id \notin DOMAIN role_default_rates
             THEN HTTPException(404, "not_found")
        ELSE OK

delete_bu_rate(u, rate_id) ==
    LET roles == get_user_roles(u)
        op == "delete_bu_rate"
    IN  IF rejected(delete_bu_rate_response(u, rate_id)) THEN UNCHANGED vars
        ELSE
            /\ role_default_rates' =
                 [i \in DOMAIN role_default_rates \ {rate_id} |-> role_default_rates[i]]
            /\ UNCHANGED <<version, features, effort_allocations, team_members,
                           sprint_plan_rows, estimation_history, justification_logs,
                           audit_logs, next_id>>

(***************************************************************************)
(* routers/projects.py                                                     *)
(***************************************************************************)
\* a deletion check that looks at the lock only
delete_project_response_unlocked(u) ==
    LET roles == get_user_roles(u)
    IN  IF ~can_delete_project(roles) THEN HTTPException(403, "forbidden")
        ELSE IF ~project_found THEN HTTPException(404, "not_found")
        ELSE IF version.is_locked THEN HTTPException(400, "not_draft")
        ELSE OK

delete_project_response(u) ==
    LET roles == get_user_roles(u)
    IN  IF ~can_delete_project(roles) THEN HTTPException(403, "forbidden")
        ELSE IF ~project_found THEN HTTPException(404, "not_found")
        ELSE IF version.status # "draft" \/ version.is_locked
        THEN HTTPException(400, "not_draft")
        ELSE OK

\* delete(AuditLog).where(project_id == ...) and db.delete(project): the
\* audit rows of the project go first, then the project with its versions
\* and everything that hangs on them (cascade)
delete_project(u) ==
    IF rejected(delete_project_response(u)) THEN UNCHANGED vars
    ELSE
        /\ audit_logs' = <<>>
        /\ version' = no_version
        /\ features' = <<>>
        /\ effort_allocations' = <<>>
        /\ team_members' = <<>>
        /\ sprint_plan_rows' = <<>>
        /\ estimation_history' = <<>>
        /\ justification_logs' = <<>>
        /\ UNCHANGED <<role_default_rates, next_id>>

(***************************************************************************)
(* AI proposals: routers/features.py (ai_estimate, ai_estimate_from_upload) *)
(* and routers/team.py (ai_suggest_team).                                  *)
(***************************************************************************)
\* what estimate_features_from_requirements may return: the proposed features
FeatureProposals ==
    { <<>>,
      <<[name |-> "checkout", effort_hours |-> 100,
         effort_allocations |-> <<>>, tasks |-> <<>>]>> }

\* what suggest_team_allocation may return: the proposed team members
TeamProposals ==
    { <<>>,
      <<[role |-> RoleQA, cost_rate_per_day |-> None, billing_rate_per_day |-> None]>> }

\* text extracted from the uploaded document
RequirementTexts == {"", "  ", "a shop with a checkout"}

ai_estimate_response(u) ==
    LET roles == get_user_roles(u)
    IN  IF ~can_edit_features(roles) THEN HTTPException(403, "forbidden")
        ELSE get_version_response

\* an ai_estimate that stores the first proposed feature
ai_estimate_applying(u, proposal) ==
    IF rejected(ai_estimate_response(u)) \/ proposal = <<>> \/ features # <<>>
    THEN UNCHANGED vars
    ELSE /\ features' = <<[name |-> proposal[1].name,
                           effort_hours |-> proposal[1].effort_hours,
                           tasks |-> None]>>
         /\ effort_allocations' = << <<>> >>
         /\ UNCHANGED <<version, team_members, role_default_rates, sprint_plan_rows,
                        estimation_history, justification_logs, audit_logs,
                        next_id, sessions, call>>

\* ai_estimate: the proposal goes back in the AIEstimateResponse; the handler
\* reads the version and the role names and writes nothing
ai_estimate(u, proposal) ==
    UNCHANGED vars

ai_estimate_from_upload_response(u, requirement_text) ==
    LET roles == get_user_roles(u)
    IN  IF ~can_edit_features(roles) THEN HTTPException(403, "forbidden")
        ELSE IF rejected(get_version_response) THEN get_version_response
        ELSE IF strip(requirement_text) = "" THEN HTTPException(400, "no_text")
        ELSE OK

ai_estimate_from_upload(u, requirement_text, proposal) ==
    UNCHANGED vars

ai_suggest_team_response(u) ==
    LET roles == get_user_roles(u)
    IN  IF ~can_edit_team(roles) THEN HTTPException(403, "forbidden")
        ELSE get_version_response

\* ai_suggest_team: the proposed members go back in the response
ai_suggest_team(u, proposal) ==
    UNCHANGED vars

(***************************************************************************)
(* routers/calculations.py and engine/calculator.py: the rates a           *)
(* calculation of the version resolves.                                    *)
(***************************************************************************)
\* _get_default_rates: the rows of role_default_rates, read at calculation
\* time, in id order
default_rate_ids == DOMAIN role_default_rates

\* _get_bu_rate_for_role: exact match on the stripped role, else the first
\* case-insensitive match, else (0, 0)
get_bu_rate_for_role(role) ==
    LET r == strip(role)
        exact == {i \in default_rate_ids : strip(role_default_rates[i].role) = r}
        nocase == {i \in default_rate_ids :
                      lower(strip(role_default_rates[i].role)) = lower(r)}
        first(ids) == CHOOSE i \in ids : \A j \in ids : i <= j
        pair(i) == <<role_default_rates[i].cost_rate_per_day,
                     role_default_rates[i].billing_rate_per_day>>
    IN  IF r = "" THEN <<0, 0>>
        ELSE IF exact # {} THEN pair(first(exact))
        ELSE IF nocase # {} THEN pair(first(nocase))
        ELSE <<0, 0>>

\* Decimal division a / b for a divisor that is not zero (the requests and
\* rows of the model hold values whose quotient is whole)
quotient(a, b) ==
    IF b < 0 THEN 0 - (a \div (0 - b)) ELSE a \div b

\* _resolve_cost_rate_per_day: the member's rate per day, else its monthly
\* rate over its working days, else the default of its role
resolve_cost_rate_per_day(member) ==
    IF is_not_None(member.cost_rate_per_day) /\ value(member.cost_rate_per_day) > 0
    THEN value(member.cost_rate_per_day)
    ELSE IF /\ is_not_None(member.monthly_cost_rate)
            /\ value(member.monthly_cost_rate) > 0
            /\ member.working_days_per_month # 0
    THEN quotient(value(member.monthly_cost_rate), member.working_days_per_month)
    ELSE get_bu_rate_for_role(member.role)[1]

\* _resolve_billing_rate_per_day: the member's rate per day, else its hourly
\* rate times its hours per day, else the default of its role
resolve_billing_rate_per_day(member) ==
    IF is_not_None(member.billing_rate_per_day) /\ value(member.billing_rate_per_day) > 0
    THEN value(member.billing_rate_per_day)
    ELSE IF /\ is_not_None(member.billing_rate)
            /\ value(member.billing_rate) > 0
            /\ member.hours_per_day # 0
    THEN value(member.billing_rate) * member.hours_per_day
    ELSE get_bu_rate_for_role(member.role)[2]

\* the rates base_cost and revenue use: per team member, and per allocation
\* role of a feature
resolved_rates ==
    [members |-> [m \in DOMAIN team_members |->
                    <<resolve_cost_rate_per_day(team_members[m]),
                      resolve_billing_rate_per_day(team_members[m])>>],
     allocations |-> [f \in DOMAIN effort_allocations |->
                    [i \in 1..Len(effort_allocations[f]) |->
                        get_bu_rate_for_role(effort_allocations[f][i].role)]]]

(***************************************************************************)
(* engine/calculator.py: margins, reverse margin, sprints.  Money is in    *)
(* cents and a margin in hundredths of a percent, so that two decimal      *)
(* places are whole numbers.                                               *)
(***************************************************************************)
\* num/den to the nearest whole number, a tie to the even neighbour
round_half_even(num, den) ==
    LET n == Abs(num)
        d == Abs(den)
        q == n \div d
        r == n % d
        m == IF 2 * r > d \/ (2 * r = d /\ q % 2 = 1) THEN q + 1 ELSE q
    IN  IF (num < 0) # (den < 0) THEN 0 - m ELSE m

\* CalculationEngine._round: quantize with ROUND_HALF_UP, the nearest whole
\* number to num/den, a tie away from zero
round(num, den) ==
    LET n == Abs(num)
        d == Abs(den)
        q == n \div d
        r == n % d
        m == IF 2 * r >= d THEN q + 1 ELSE q
    IN  IF (num < 0) # (den < 0) THEN 0 - m ELSE m

\* CalculationEngine.gross_margin: (revenue - cost) / revenue * 100
gross_margin(revenue, cost) ==
    IF revenue = 0 THEN None
    ELSE Some(round((revenue - cost) * 10000, revenue))

\* CalculationEngine.net_margin
net_margin(revenue, total_cost) ==
    gross_margin(revenue, total_cost)

\* a reverse margin that marks the cost up by the target
reverse_margin_as_markup(cost, target_margin_pct) ==
    round(cost * (10000 + target_margin_pct), 10000)

\* CalculationEngine.reverse_margin_revenue: cost / (1 - target / 100)
reverse_margin_revenue(cost, target_margin_pct) ==
    IF target_margin_pct >= 10000 THEN 0
    ELSE LET factor == 10000 - target_margin_pct
         IN  IF factor <= 0 THEN 0
             ELSE round(cost * 10000, factor)

\* buffers where the reserve is taken on the cost with its contingency
cost_with_buffers_compounding(base_cost, contingency_pct, management_reserve_pct) ==
    LET contingency == round(base_cost * contingency_pct, 10000)
        risk_buffer == contingency
            + round((base_cost + contingency) * management_reserve_pct, 10000)
    IN  <<base_cost, risk_buffer, base_cost + risk_buffer>>

\* CalculationEngine.cost_with_buffers on a base cost in cents, as base_cost
\* returns it: the sum of contingency and reserve is rounded to the cent
cost_with_buffers(base_cost, contingency_pct, management_reserve_pct) ==
    LET risk_buffer ==
            round(base_cost * contingency_pct + base_cost * management_reserve_pct,
                  10000)
    IN  <<base_cost, risk_buffer, base_cost + risk_buffer>>

\* a sprint count that drops the started sprint
sprints_required_rounding_down(total_effort_hours, sprint_capacity) ==
    IF sprint_capacity <= 0 THEN 0
    ELSE total_effort_hours \div sprint_capacity

\* CalculationEngine.sprints_required: to_integral_value(ROUND_UP) rounds
\* away from zero
sprints_required(total_effort_hours, sprint_capacity) ==
    IF sprint_capacity <= 0 THEN 0
    ELSE LET n == Abs(total_effort_hours)
             q == n \div sprint_capacity
             m == IF n % sprint_capacity # 0 THEN q + 1 ELSE q
         IN  IF total_effort_hours < 0 THEN 0 - m ELSE m

(***************************************************************************)
(* Requests in flight and engine calls.                                    *)
(***************************************************************************)
\* database sessions open at the same time (one per request, get_db)
MaxSessions == 2
Sessions == 1..MaxSessions

\* rows the concurrent specification lets the audit log grow to
MaxAuditConcurrent == 5

\* the tables, as opposed to the requests in flight
database ==
    <<version, features, effort_allocations, team_members, role_default_rates,
      sprint_plan_rows, estimation_history, justification_logs, audit_logs, next_id>>

\* callers of the requests in flight: an admin and an analyst
ConcurrentCallers == {"u_admin", "u_ba"}

\* bodies of the PATCH .../features/{feature_id} requests in flight: an
\* effort edit within the threshold, one beyond it, and new allocations
ConcurrentUpdates ==
    { [data |-> FeatureUpdate(NULL, Some(110), None, None), justification |-> None],
      [data |-> FeatureUpdate(NULL, Some(130), None, None),
       justification |-> Some("scope change")],
      [data |-> FeatureUpdate(NULL, None, Some(<<Allocation(RoleDev, 10000, 60)>>), None),
       justification |-> None] }

\* a session slot with no request in it
idle == [pc |-> "idle"]

\* no engine call under evaluation
no_call == [fn |-> "none", done |-> TRUE]

(***************************************************************************)
(* State after create_project: version 1, draft, unlocked, nothing in it.  *)
(***************************************************************************)
Init ==
    /\ version = [status |-> "draft", is_locked |-> FALSE,
                  locked_by |-> NULL, locked_at |-> NULL,
                  contingency_pct |-> 0, management_reserve_pct |-> 0,
                  notes |-> NULL]
    /\ features = <<>>
    /\ effort_allocations = <<>>
    /\ team_members = <<>>
    /\ role_default_rates = <<>>
    /\ sprint_plan_rows = <<>>
    /\ estimation_history = <<>>
    /\ justification_logs = <<>>
    /\ audit_logs = <<>>
    /\ next_id = [feature |-> 0, member |-> 0, rate |-> 0]
    /\ sessions = [s \in Sessions |-> idle]
    /\ call = no_call

(***************************************************************************)
(* One action per request; U is the set of callers.                        *)
(***************************************************************************)
UpdateVersion(U) ==
    /\ \E u \in U, vid \in VersionIds, d \in VersionUpdates : update_version(u, vid, d)
    /\ UNCHANGED <<sessions, call>>

TransitionStatus(U) ==
    /\ \E u \in U, vid \in VersionIds, t \in Targets : transition_status(u, vid, t)
    /\ UNCHANGED <<sessions, call>>

LockVersion(U) ==
    /\ \E u \in U, vid \in VersionIds : lock_version(u, vid)
    /\ UNCHANGED <<sessions, call>>

UnlockVersion(U) ==
    /\ \E u \in U, vid \in VersionIds, r \in Reasons : unlock_version(u, vid, r)
    /\ UNCHANGED <<sessions, call>>

AddFeature(U) ==
    /\ \E u \in U, d \in FeatureCreates : add_feature(u, d)
    /\ UNCHANGED <<sessions, call>>

UpdateFeature(U) ==
    /\ \E u \in U, fid \in FeatureIds, r \in FeatureUpdates :
            update_feature(u, fid, r.data, r.justification)
    /\ UNCHANGED <<sessions, call>>

DeleteFeature(U) ==
    /\ \E u \in U, fid \in FeatureIds : delete_feature(u, fid)
    /\ UNCHANGED <<sessions, call>>

AddTeamMember(U) ==
    /\ \E u \in U, d \in TeamMemberCreates : add_team_member(u, d)
    /\ UNCHANGED <<sessions, call>>

UpdateTeamMember(U) ==
    /\ \E u \in U, mid \in MemberIds, d \in TeamMemberUpdates :
            update_team_member(u, mid, d)
    /\ UNCHANGED <<sessions, call>>

DeleteTeamMember(U) ==
    /\ \E u \in U, mid \in MemberIds : delete_team_member(u, mid)
    /\ UNCHANGED <<sessions, call>>

SaveSprintPlan(U) ==
    /\ \E u \in U, rows \in SprintPlans : save_sprint_plan(u, rows)
    /\ UNCHANGED <<sessions, call>>

CreateBuRate(U) ==
    /\ \E u \in U, d \in RoleDefaultRateCreates : create_bu_rate(u, d)
    /\ UNCHANGED <<sessions, call>>

UpdateBuRate(U) ==
    /\ \E u \in U, rid \in RateIds, d \in RoleDefaultRateUpdates :
            update_bu_rate(u, rid, d)
    /\ UNCHANGED <<sessions, call>>

DeleteBuRate(U) ==
    /\ \E u \in U, rid \in RateIds : delete_bu_rate(u, rid)
    /\ UNCHANGED <<sessions, call>>

DeleteProject(U) ==
    /\ \E u \in U : delete_project(u)
    /\ UNCHANGED <<sessions, call>>

AiEstimate(U) ==
    \E u \in U, p \in FeatureProposals : ai_estimate(u, p)

AiEstimateFromUpload(U) ==
    \E u \in U, t \in RequirementTexts, p \in FeatureProposals :
        ai_estimate_from_upload(u, t, p)

AiSuggestTeam(U) ==
    \E u \in U, p \in TeamProposals : ai_suggest_team(u, p)

(***************************************************************************)
(* update_feature as its session runs it: the handler gives up control at  *)
(* each await, and what it wrote becomes visible to other sessions when    *)
(* get_db commits.                                                         *)
(***************************************************************************)
\* await _get_version(db, project_id): the version is read and checked
UpdateFeatureGetVersion(s) ==
    /\ sessions[s] = idle
    /\ \E u \in ConcurrentCallers, fid \in FeatureIds, r \in ConcurrentUpdates :
          sessions' = [sessions EXCEPT ![s] =
              IF rejected(get_version_response) THEN idle
              ELSE [pc |-> "select_feature", u |-> u, feature_id |-> fid,
                    data |-> r.data, justification |-> r.justification]]
    /\ UNCHANGED <<database, call>>

\* await db.execute(select(Feature)...): the feature and its allocations are
\* read, the gate is decided on them and the rows to write are added to the
\* session
UpdateFeatureSelectFeature(s) ==
    /\ sessions[s].pc = "select_feature"
    /\ LET r == sessions[s]
           response ==
               IF r.feature_id \notin DOMAIN features
               THEN HTTPException(404, "not_found")
               ELSE effort_gate_response(r.u, features[r.feature_id], r.data,
                                         r.justification)
       IN  sessions' = [sessions EXCEPT ![s] =
               IF rejected(response) THEN idle
               ELSE [pc |-> "commit", u |-> r.u, feature_id |-> r.feature_id,
                     data |-> r.data, justification |-> r.justification,
                     feature |-> features[r.feature_id],
                     loaded |-> effort_allocations[r.feature_id]]]
    /\ UNCHANGED <<database, call>>

\* await db.refresh(feature) flushes the session, the handler returns and
\* get_db commits: the rows written become visible
UpdateFeatureCommit(s) ==
    /\ sessions[s].pc = "commit"
    /\ LET r == sessions[s]
       IN  IF r.feature_id \in DOMAIN features
           THEN update_feature_writes(r.u, r.feature_id, r.data, r.justification,
                                      r.feature, r.loaded)
           ELSE UNCHANGED database
    /\ sessions' = [sessions EXCEPT ![s] = idle]
    /\ UNCHANGED call

(***************************************************************************)
(* transition_status, lock_version and unlock_version as their sessions    *)
(* run them: the version is read at await _get_version, the handler        *)
(* assigns to the instance it read, and the flush updates the columns      *)
(* whose value the handler changed.                                        *)
(***************************************************************************)
\* a session that read the row `read`, left the instance as `instance` and
\* added the audit row
flushing(read, instance, audit) ==
    [pc |-> "flush", read |-> read, instance |-> instance, audit |-> audit]

\* the UPDATE of a flush: the columns the handler changed are set, the others
\* keep what the row holds now
written(row, read, instance) ==
    [f \in DOMAIN row |-> IF instance[f] # read[f] THEN instance[f] ELSE row[f]]

TransitionStatusGetVersion(s) ==
    /\ sessions[s] = idle
    /\ \E u \in ConcurrentCallers, t \in Targets, now \in Times :
          sessions' = [sessions EXCEPT ![s] =
              IF rejected(transition_status_response(u, CurrentVersionId, t)) THEN idle
              ELSE flushing(version, entered(version, lower(t), u, now),
                     AuditLog(u, "status_transition", "project_version",
                              CurrentVersionId, lower(t), NULL))]
    /\ UNCHANGED <<database, call>>

LockVersionGetVersion(s) ==
    /\ sessions[s] = idle
    /\ \E u \in ConcurrentCallers, now \in Times :
          sessions' = [sessions EXCEPT ![s] =
              IF rejected(lock_version_response(u, CurrentVersionId)) THEN idle
              ELSE flushing(version, won(version, u, now),
                     AuditLog(u, "lock", "project_version", CurrentVersionId,
                              NULL, NULL))]
    /\ UNCHANGED <<database, call>>

UnlockVersionGetVersion(s) ==
    /\ sessions[s] = idle
    /\ \E u \in ConcurrentCallers, r \in Reasons :
          sessions' = [sessions EXCEPT ![s] =
              IF rejected(unlock_version_response(u, CurrentVersionId, r)) THEN idle
              ELSE flushing(version, unlocked(version),
                     AuditLog(u, "unlock", "project_version", CurrentVersionId,
                              NULL, r))]
    /\ UNCHANGED <<database, call>>

\* await db.flush(), the handler returns and get_db commits
VersionFlush(s) ==
    /\ sessions[s].pc = "flush"
    /\ LET r == sessions[s]
       IN  /\ version' = written(version, r.read, r.instance)
           /\ audit_logs' = Append(audit_logs, r.audit)
    /\ sessions' = [sessions EXCEPT ![s] = idle]
    /\ UNCHANGED <<features, effort_allocations, team_members, role_default_rates,
                   sprint_plan_rows, estimation_history, justification_logs,
                   next_id, call>>

\* the row was updated by another transaction after this one read it: under
\* an isolation level above READ COMMITTED the database refuses the UPDATE
\* and the request fails with nothing written
VersionRollback(s) ==
    /\ sessions[s].pc = "flush"
    /\ version # sessions[s].read
    /\ sessions' = [sessions EXCEPT ![s] = idle]
    /\ UNCHANGED <<database, call>>

\* the audit log holds at most n rows after the step
AuditWithin(n) == Len(audit_logs') <= n

(***************************************************************************)
(* Specifications.                                                         *)
(*   SpecLifecycle  the lifecycle requests, by every caller                *)
(*   SpecFeatures   the feature requests and the way to won and back       *)
(*   Spec           every request                                          *)
(*   SpecConcurrent update_feature requests in flight on a submitted       *)
(*                  version, beside the status transitions                 *)
(***************************************************************************)
NextLifecycle ==
    \/ TransitionStatus(Users) /\ AuditWithin(MaxAudit)
    \/ LockVersion(Users) /\ AuditWithin(MaxAudit)
    \/ UnlockVersion(Users) /\ AuditWithin(MaxAudit)

SpecLifecycle == Init /\ [][NextLifecycle]_vars

NextFeatures ==
    \/ AddFeature(Estimators) /\ AuditWithin(MaxAuditAll)
    \/ UpdateFeature(Estimators) /\ AuditWithin(MaxAuditAll)
    \/ DeleteFeature(Estimators) /\ AuditWithin(MaxAuditAll)
    \/ TransitionStatus(Estimators) /\ AuditWithin(MaxAuditAll)
    \/ UnlockVersion(Estimators) /\ AuditWithin(MaxAuditAll)

SpecFeatures == Init /\ [][NextFeatures]_vars

Next ==
    \/ UpdateVersion(Callers) /\ AuditWithin(MaxAuditAll)
    \/ TransitionStatus(Callers) /\ AuditWithin(MaxAuditAll)
    \/ LockVersion(Callers) /\ AuditWithin(MaxAuditAll)
    \/ UnlockVersion(Callers) /\ AuditWithin(MaxAuditAll)
    \/ AddFeature(Callers) /\ AuditWithin(MaxAuditAll)
    \/ UpdateFeature(Callers) /\ AuditWithin(MaxAuditAll)
    \/ DeleteFeature(Callers) /\ AuditWithin(MaxAuditAll)
    \/ AddTeamMember(Callers) /\ AuditWithin(MaxAuditAll)
    \/ UpdateTeamMember(Callers) /\ AuditWithin(MaxAuditAll)
    \/ DeleteTeamMember(Callers) /\ AuditWithin(MaxAuditAll)
    \/ SaveSprintPlan(Callers)
    \/ CreateBuRate(Callers)
    \/ UpdateBuRate(Callers)
    \/ DeleteBuRate(Callers)
    \/ DeleteProject(Callers)
    \/ AiEstimate(Callers)
    \/ AiEstimateFromUpload(Callers)
    \/ AiSuggestTeam(Callers)

Spec == Init /\ [][Next]_vars

\* the tables after u_admin added the feature "checkout" of 100 hours to the
\* new version and moved the version to review and on to submitted
SubmittedWithFeature ==
    /\ version = [status |-> "submitted", is_locked |-> FALSE,
                  locked_by |-> NULL, locked_at |-> NULL,
                  contingency_pct |-> 0, management_reserve_pct |-> 0,
                  notes |-> NULL]
    /\ features = <<[name |-> "checkout", effort_hours |-> 100, tasks |-> None]>>
    /\ effort_allocations = << <<>> >>
    /\ team_members = <<>>
    /\ role_default_rates = <<>>
    /\ sprint_plan_rows = <<>>
    /\ estimation_history = <<>>
    /\ justification_logs = <<>>
    /\ audit_logs =
         <<AuditLog("u_admin", "add_feature", "feature", 1, "checkout", NULL),
           AuditLog("u_admin", "status_transition", "project_version",
                    CurrentVersionId, "review", NULL),
           AuditLog("u_admin", "status_transition", "project_version",
                    CurrentVersionId, "submitted", NULL)>>
    /\ next_id = [feature |-> 1, member |-> 0, rate |-> 0]

InitConcurrent ==
    /\ SubmittedWithFeature
    /\ sessions = [s \in Sessions |-> idle]
    /\ call = no_call

NextConcurrent ==
    \/ \E s \in Sessions : UpdateFeatureGetVersion(s)
    \/ \E s \in Sessions : UpdateFeatureSelectFeature(s)
    \/ \E s \in Sessions : UpdateFeatureCommit(s) /\ AuditWithin(MaxAuditConcurrent)
    \/ TransitionStatus(ConcurrentCallers) /\ AuditWithin(MaxAuditConcurrent)

SpecConcurrent == InitConcurrent /\ [][NextConcurrent]_vars

\* audit rows up to which the lifecycle of a won version is followed: the
\* four below, the unlock, the two transitions back to draft, and one more
MaxAuditDelete == 8

\* the tables after u_admin added the feature "checkout" of 100 hours and
\* moved the version through review and submitted to won
WonWithFeature ==
    /\ version = [status |-> "won", is_locked |-> TRUE,
                  locked_by |-> "u_admin", locked_at |-> "t1",
                  contingency_pct |-> 0, management_reserve_pct |-> 0,
                  notes |-> NULL]
    /\ features = <<[name |-> "checkout", effort_hours |-> 100, tasks |-> None]>>
    /\ effort_allocations = << <<>> >>
    /\ team_members = <<>>
    /\ role_default_rates = <<>>
    /\ sprint_plan_rows = <<>>
    /\ estimation_history = <<>>
    /\ justification_logs = <<>>
    /\ audit_logs =
         <<AuditLog("u_admin", "add_feature", "feature", 1, "checkout", NULL),
           AuditLog("u_admin", "status_transition", "project_version",
                    CurrentVersionId, "review", NULL),
           AuditLog("u_admin", "status_transition", "project_version",
                    CurrentVersionId, "submitted", NULL),
           AuditLog("u_admin", "status_transition", "project_version",
                    CurrentVersionId, "won", NULL)>>
    /\ next_id = [feature |-> 1, member |-> 0, rate |-> 0]

InitDelete ==
    /\ WonWithFeature
    /\ sessions = [s \in Sessions |-> idle]
    /\ call = no_call

\* the requests that move or remove a won version
NextDelete ==
    \/ TransitionStatus(Users) /\ AuditWithin(MaxAuditDelete)
    \/ LockVersion(Users) /\ AuditWithin(MaxAuditDelete)
    \/ UnlockVersion(Users) /\ AuditWithin(MaxAuditDelete)
    \/ DeleteProject(Users)

SpecDelete == InitDelete /\ [][NextDelete]_vars

\* audit rows up to which concurrent lifecycle requests are followed
MaxAuditRace == 6

NextRace ==
    \/ \E s \in Sessions : TransitionStatusGetVersion(s)
    \/ \E s \in Sessions : LockVersionGetVersion(s)
    \/ \E s \in Sessions : UnlockVersionGetVersion(s)
    \/ \E s \in Sessions : VersionFlush(s) /\ AuditWithin(MaxAuditRace)
    \/ \E s \in Sessions : VersionRollback(s)

SpecRace == InitConcurrent /\ [][NextRace]_vars

(***************************************************************************)
(* engine/calculator.py: base cost and revenue of a version.  The team and *)
(* the features are lists in the order they were loaded; the result is in  *)
(* cents.  A sum of Decimal quotients is kept as a fraction in lowest      *)
(* terms (the rows of the model divide without remainder digits beyond the *)
(* precision of Decimal), and rounded once at the end as the code does.    *)
(***************************************************************************)
\* Settings: task contingency per seniority, in hundredths
task_contingency_default == 110
task_contingency_junior == 115
task_contingency_senior == 105

\* Settings: hours per day and utilization (percent) of a role without member
default_hours_per_day == 8
default_utilization_pct == 80

\* _task_contingency_multiplier, in hundredths: by the words in the role
task_contingency_multiplier(role) ==
    LET r == lower(strip(role))
        \* "word in r" on the roles the model uses; none holds "jr ", "sr "
        \* or "lead"
        in(word) == CASE word = "junior" -> r = "junior qa"
                      [] word = "senior" -> r = "senior developer"
                      [] OTHER -> FALSE
    IN  IF strip(role) = "" THEN task_contingency_default
        ELSE IF in("junior") \/ in("jr ") THEN task_contingency_junior
        ELSE IF in("senior") \/ in("sr ") \/ in("lead") THEN task_contingency_senior
        ELSE task_contingency_default

\* the Decimal num / den, for den > 0, as <<numerator, denominator>> in
\* lowest terms
fraction(num, den) ==
    LET RECURSIVE gcd(_, _)
        gcd(a, b) == IF b = 0 THEN a ELSE gcd(b, a % b)
        g == gcd(Abs(num), den)
    IN  IF num < 0 THEN <<0 - (Abs(num) \div g), den \div g>>
        ELSE <<num \div g, den \div g>>

\* total += term, over a list of terms
RECURSIVE sum(_)
sum(terms) ==
    IF terms = <<>> THEN <<0, 1>>
    ELSE LET t == Head(terms)
             rest == sum(Tail(terms))
         IN  fraction(t[1] * rest[2] + rest[1] * t[2], t[2] * rest[2])

\* CalculationEngine.total_effort_hours
RECURSIVE total_effort_hours(_)
total_effort_hours(feature_list) ==
    IF feature_list = <<>> THEN 0
    ELSE Head(feature_list).effort_hours + total_effort_hours(Tail(feature_list))

\* a fallback that takes the last member of the team
last_member(team_list) ==
    team_list[Len(team_list)]

\* team_members[0]
first_member(team_list) ==
    team_list[1]

\* a lookup that finds no member for any role
member_for_no_role(team_list, role) ==
    None

\* next((m for m in team_members if m.role == alloc.role), None), as a set
\* of at most one member
member_with_role(team_list, role) ==
    LET matching == {i \in 1..Len(team_list) : team_list[i].role = role}
    IN  IF matching = {} THEN None
        ELSE Some(team_list[CHOOSE i \in matching : \A j \in matching : i <= j])

\* CalculationEngine.base_cost
base_cost(team_list, feature_list, allocations) ==
    LET hours_of(m) == IF m.hours_per_day # 0 THEN m.hours_per_day
                       ELSE default_hours_per_day
        \* role_hours * cost_rate / (hours_per_day * util), the hours in
        \* hundredths of an hour and util in percent
        cost(hours, cost_rate, hours_per_day, util) ==
            IF hours_per_day > 0 /\ util > 0
            THEN fraction(hours * cost_rate * 100, hours_per_day * util)
            ELSE <<0, 1>>
        of_allocation(alloc) ==
            LET alloc_hours == alloc.effort_hours * task_contingency_multiplier(alloc.role)
                member == member_with_role(team_list, alloc.role)
                cost_rate == get_bu_rate_for_role(alloc.role)[1]
            IN  IF member # None
                THEN cost(alloc_hours, resolve_cost_rate_per_day(value(member)),
                          hours_of(value(member)), value(member).utilization_pct)
                ELSE IF cost_rate > 0
                THEN cost(alloc_hours, cost_rate, default_hours_per_day,
                          default_utilization_pct)
                ELSE <<0, 1>>
        of_feature(f) ==
            IF allocations[f] # <<>>
            THEN sum([i \in 1..Len(allocations[f]) |-> of_allocation(allocations[f][i])])
            ELSE IF team_list # <<>>
            THEN LET m0 == first_member(team_list)
                 IN  cost(feature_list[f].effort_hours * task_contingency_multiplier(m0.role),
                          resolve_cost_rate_per_day(m0), hours_of(m0), m0.utilization_pct)
            ELSE <<0, 1>>
        total == sum([f \in 1..Len(feature_list) |-> of_feature(f)])
    IN  round(total[1], total[2])

\* CalculationEngine.cost_per_day, in cents: the rate over the utilization,
\* 0 for a utilization of exactly 0
cost_per_day(member) ==
    LET rate == resolve_cost_rate_per_day(member)
    IN  IF member.utilization_pct = 0 THEN 0
        ELSE round(rate * 10000, member.utilization_pct)

\* CalculationEngine.reverse_margin_billing_rate: the required revenue over
\* the effort in days of 8 hours
reverse_margin_billing_rate(total_cost, effort_hours, target_margin_pct) ==
    IF effort_hours <= 0 THEN 0
    ELSE round(reverse_margin_revenue(total_cost, target_margin_pct) * 8, effort_hours)

\* sum(milestone_amounts)
RECURSIVE sum_amounts(_)
sum_amounts(amounts) ==
    IF amounts = <<>> THEN 0 ELSE Head(amounts) + sum_amounts(Tail(amounts))

\* CalculationEngine.revenue; fixed_revenue and milestone_amounts are
\* options, and a value Python takes for false (None, 0, an empty list)
\* falls through to the final return of 0
revenue(project, team_list, feature_list, allocations, milestone_amounts) ==
    LET hours_of(m) == IF m.hours_per_day # 0 THEN m.hours_per_day ELSE 8
        \* effort_hours / hours_per_day * billing_per_day
        billed(effort_hours, billing_per_day, hours_per_day) ==
            IF hours_per_day > 0
            THEN fraction(effort_hours * billing_per_day * 100, hours_per_day)
            ELSE <<0, 1>>
        of_allocation(alloc) ==
            LET member == member_with_role(team_list, alloc.role)
                billing_per_day == get_bu_rate_for_role(alloc.role)[2]
            IN  IF member # None
                THEN billed(alloc.effort_hours,
                            resolve_billing_rate_per_day(value(member)),
                            hours_of(value(member)))
                ELSE IF billing_per_day > 0
                THEN billed(alloc.effort_hours, billing_per_day, 8)
                ELSE <<0, 1>>
        of_feature(f) ==
            IF allocations[f] # <<>>
            THEN sum([i \in 1..Len(allocations[f]) |-> of_allocation(allocations[f][i])])
            ELSE IF team_list # <<>>
            THEN billed(feature_list[f].effort_hours,
                        resolve_billing_rate_per_day(team_list[1]),
                        hours_of(team_list[1]))
            ELSE <<0, 1>>
        total == sum([f \in 1..Len(feature_list) |-> of_feature(f)])
    IN  IF /\ project.revenue_model = "fixed"
           /\ project.fixed_revenue # None /\ value(project.fixed_revenue) # 0
        THEN value(project.fixed_revenue)
        ELSE IF /\ project.revenue_model = "milestone"
                /\ milestone_amounts # None /\ value(milestone_amounts) # <<>>
        THEN sum_amounts(value(milestone_amounts))
        ELSE IF project.revenue_model = "t_m"
        THEN round(total[1], total[2])
        ELSE 0

(***************************************************************************)
(* The calculation engine, one call at a time: the arguments are drawn     *)
(* from the sets below and the call is evaluated in one step.              *)
(***************************************************************************)

\* a TeamMember row with rates per day, hours per day and utilization
Member(role, cost_rate, billing_rate, hours_per_day, utilization_pct) ==
    [role |-> role, cost_rate_per_day |-> cost_rate,
     billing_rate_per_day |-> billing_rate,
     monthly_cost_rate |-> None, billing_rate |-> None,
     working_days_per_month |-> 20, hours_per_day |-> hours_per_day,
     utilization_pct |-> utilization_pct]

\* the member of a call that takes none
no_member ==
    [role |-> "", cost_rate_per_day |-> None, billing_rate_per_day |-> None,
     monthly_cost_rate |-> None, billing_rate |-> None,
     working_days_per_month |-> 20, hours_per_day |-> 8, utilization_pct |-> 80]

\* the project of a call that reads none
no_project ==
    [revenue_model |-> "fixed", fixed_revenue |-> None]

\* a call not yet evaluated: its amounts, or its member; revenue also takes
\* a project and the milestone amounts
pending(fn, args, member) ==
    [fn |-> fn, args |-> args, member |-> member, project |-> no_project,
     milestone_amounts |-> None, done |-> FALSE, result |-> NULL]

EngineCalls ==
    LET \* efforts in hours, around the 15 % threshold of 20, 100 and 200
        EffortHours == {0, 1, 17, 20, 23, 24, 84, 85, 86, 100, 114, 115, 116, 200}
        \* revenues and costs in cents
        Revenues == {0 - 800, 0, 1, 3, 7, 800, 12345, 100000}
        Costs == {0, 1, 2, 5, 799, 800, 801, 12345, 20000}
        \* costs in cents and target margins in hundredths of a percent; the API
        \* takes targets from 0 to 100 (Query(ge=0, le=100))
        ReverseCosts == {0, 1, 3, 10000, 12345, 20000}
        TargetMargins == {0, 15, 1000, 3333, 5000, 9000, 10000}
        ReverseArgs == (ReverseCosts \X TargetMargins) \cup {<<1, 9999>>, <<3, 9999>>}
        \* total effort and sprint capacity in hours
        TotalEfforts == {0, 1, 79, 80, 81, 160, 1000}
        SprintCapacities == {0 - 5, 0, 1, 3, 40, 80}
        \* base costs in cents and the buffer percentages of a version, in hundredths
        \* of a percent (VersionUpdate: ge=0, le=100)
        BufferArgs ==
            {0, 1, 5, 20, 12345, 100000} \X {0, 250, 1000, 3333, 10000}
                \X {0, 250, 500, 10000}
        \* TeamMember rows: rates per day, the legacy monthly and hourly rates, and
        \* the divisor and multiplier TeamMemberUpdate leaves unconstrained
        EngineMembers ==
            [role : {RoleQA, " qa ", "", "Architect"},
             cost_rate_per_day : {None, Some(0), Some(700)},
             billing_rate_per_day : {None, Some(900)},
             monthly_cost_rate : {None, Some(0), Some(4000)},
             billing_rate : {None, Some(50)},
             working_days_per_month : {0, 20, 0 - 20},
             hours_per_day : {0, 8, 0 - 8},
             utilization_pct : {80}]
    IN
    {pending("effort_override_exceeds_threshold", a, no_member) : a \in EffortHours \X EffortHours}
    \cup {pending("gross_margin", a, no_member) : a \in Revenues \X Costs}
    \cup {pending("net_margin", a, no_member) : a \in Revenues \X Costs}
    \cup {pending("reverse_margin_revenue", a, no_member) : a \in ReverseArgs}
    \cup {pending("sprints_required", a, no_member) : a \in TotalEfforts \X SprintCapacities}
    \cup {pending("cost_with_buffers", a, no_member) : a \in BufferArgs}
    \cup {pending("resolve_cost_rate_per_day", <<0, 0>>, m) : m \in EngineMembers}
    \cup {pending("resolve_billing_rate_per_day", <<0, 0>>, m) : m \in EngineMembers}
    \cup {pending("base_cost", <<0, 0>>, no_member)}
    \* utilization_pct: 0..100 on creation, any value through TeamMemberUpdate
    \cup {pending("cost_per_day", <<0, 0>>, Member(RoleQA, c, None, 8, u)) :
             c \in {None, Some(700)}, u \in {0 - 50, 0, 50, 80, 100}}
    \cup {pending("reverse_margin_billing_rate", a, no_member) :
             a \in {0, 10000, 12345} \X {0 - 8, 0, 1, 3, 80} \X {0, 5000, 10000}}
    \cup {[pending("revenue", <<0, 0>>, no_member)
               EXCEPT !.project = p, !.milestone_amounts = a] :
             p \in [revenue_model : {"fixed", "t_m", "milestone"},
                    fixed_revenue : {None, Some(0), Some(500000), Some(0 - 100)}],
             a \in {None, Some(<<>>), Some(<<100, 250>>)}}

InitEngine ==
    LET \* the teams base_cost and revenue are given: up to two members, among them
        \* rows without rates, and rows with the hours and the utilization that
        \* TeamMemberUpdate lets through
        EngineTeams ==
            LET rows == { Member(RoleDev, Some(500), Some(800), 8, 80),
                          Member(RoleDev, Some(500), Some(800), 0, 80),
                          Member(RoleDev, Some(500), Some(800), 8, 0),
                          Member(RoleQA, None, None, 4, 100),
                          Member(RoleQA, Some(400), Some(640), 0 - 8, 80),
                          Member("Senior Developer", Some(600), Some(1000), 10, 50),
                          Member("Junior QA", Some(300), Some(500), 8, 100) }
            IN  {<<>>} \cup {<<m>> : m \in rows} \cup (rows \X rows)
        \* the features and allocations base_cost and revenue are given
        EngineFeatures ==
            LET feature(effort_hours) ==
                    [name |-> "checkout", effort_hours |-> effort_hours, tasks |-> None]
            IN  { [features |-> <<>>, effort_allocations |-> <<>>],
                  [features |-> <<feature(80)>>, effort_allocations |-> << <<>> >>],
                  [features |-> <<feature(80), feature(40)>>,
                   effort_allocations |-> << <<>>, <<>> >>],
                  [features |-> <<feature(0)>>,
                   effort_allocations |-> << <<Allocation(RoleQA, 10000, 40)>> >>],
                  [features |-> <<feature(80), feature(0)>>,
                   effort_allocations |-> << <<>>, <<Allocation(RoleQA, 5000, 20),
                                                   Allocation("Junior QA", 5000, 20)>> >>] }
        \* the role_default_rates tables a call reads
        RateTables ==
            { <<>>,
              <<[role |-> RoleQA, cost_rate_per_day |-> 500, billing_rate_per_day |-> 800]>> }
    IN
    /\ version = [status |-> "draft", is_locked |-> FALSE,
                  locked_by |-> NULL, locked_at |-> NULL,
                  contingency_pct |-> 0, management_reserve_pct |-> 0,
                  notes |-> NULL]
    /\ call \in EngineCalls
    /\ team_members \in IF call.fn \in {"base_cost", "revenue"}
                        THEN EngineTeams ELSE {<<>>}
    /\ \E given \in IF call.fn \in {"base_cost", "revenue"}
                     THEN EngineFeatures
                     ELSE {[features |-> <<>>, effort_allocations |-> <<>>]} :
          /\ features = given.features
          /\ effort_allocations = given.effort_allocations
    /\ role_default_rates \in RateTables
    /\ sprint_plan_rows = <<>>
    /\ estimation_history = <<>>
    /\ justification_logs = <<>>
    /\ audit_logs = <<>>
    /\ next_id = [feature |-> Len(features), member |-> Len(team_members),
                  rate |-> Len(role_default_rates)]
    /\ sessions = [s \in Sessions |-> idle]

\* the call returns
returns(result) ==
    /\ call' = [call EXCEPT !.done = TRUE, !.result = result]
    /\ UNCHANGED <<database, sessions>>

EffortOverrideExceedsThreshold ==
    /\ call.fn = "effort_override_exceeds_threshold" /\ ~call.done
    /\ returns(effort_override_exceeds_threshold(call.args[1], call.args[2]))

GrossMargin ==
    /\ call.fn = "gross_margin" /\ ~call.done
    /\ returns(gross_margin(call.args[1], call.args[2]))

NetMargin ==
    /\ call.fn = "net_margin" /\ ~call.done
    /\ returns(net_margin(call.args[1], call.args[2]))

ReverseMarginRevenue ==
    /\ call.fn = "reverse_margin_revenue" /\ ~call.done
    /\ returns(reverse_margin_revenue(call.args[1], call.args[2]))

SprintsRequired ==
    /\ call.fn = "sprints_required" /\ ~call.done
    /\ returns(sprints_required(call.args[1], call.args[2]))

CostWithBuffers ==
    /\ call.fn = "cost_with_buffers" /\ ~call.done
    /\ returns(cost_with_buffers(call.args[1], call.args[2], call.args[3]))

BaseCost ==
    /\ call.fn = "base_cost" /\ ~call.done
    /\ returns(base_cost(team_members, features, effort_allocations))

CostPerDay ==
    /\ call.fn = "cost_per_day" /\ ~call.done
    /\ returns(cost_per_day(call.member))

ReverseMarginBillingRate ==
    /\ call.fn = "reverse_margin_billing_rate" /\ ~call.done
    /\ returns(reverse_margin_billing_rate(call.args[1], call.args[2], call.args[3]))

Revenue ==
    /\ call.fn = "revenue" /\ ~call.done
    /\ returns(revenue(call.project, team_members, features, effort_allocations,
                       call.milestone_amounts))

ResolveCostRatePerDay ==
    /\ call.fn = "resolve_cost_rate_per_day" /\ ~call.done
    /\ returns(resolve_cost_rate_per_day(call.member))

ResolveBillingRatePerDay ==
    /\ call.fn = "resolve_billing_rate_per_day" /\ ~call.done
    /\ returns(resolve_billing_rate_per_day(call.member))

NextEngine ==
    \/ EffortOverrideExceedsThreshold
    \/ GrossMargin
    \/ NetMargin
    \/ ReverseMarginRevenue
    \/ SprintsRequired
    \/ CostWithBuffers
    \/ ResolveCostRatePerDay
    \/ ResolveBillingRatePerDay
    \/ BaseCost
    \/ Revenue
    \/ CostPerDay
    \/ ReverseMarginBillingRate

SpecEngine == InitEngine /\ [][NextEngine]_vars

(***************************************************************************)
(* Properties of the lifecycle (SpecLifecycle).                            *)
(***************************************************************************)
\* the last row of the audit log, written by the request that just succeeded
last_audit == audit_logs[Len(audit_logs)]

\* the status changes the lifecycle allows
C1_Edges ==
    { <<"draft", "review">>, <<"review", "submitted">>, <<"review", "draft">>,
      <<"submitted", "won">>, <<"submitted", "review">>, <<"won", "submitted">> }

\* the targets the table allows from a status
C1_Allowed(status) ==
    { e[2] : e \in { f \in C1_Edges : f[1] = status /\ f # <<"won", "submitted">> } }

\* C1 as stated: the status changes only along the six edges, and a
\* transition_status call whose target is not allowed from the current status
\* is answered "invalid transition", also when the status is won.
C1_AsStated ==
    [][ /\ version'.status # version.status
            => <<version.status, version'.status>> \in C1_Edges
        /\ \A u \in Users, t \in Targets :
              lower(t) \notin C1_Allowed(version.status)
                 => transition_status_response(u, CurrentVersionId, t)
                      = HTTPException(400, "invalid_transition")
      ]_vars

\* C1: the status changes only along the six edges (won to submitted by
\* unlock_version alone); on an unlocked version a transition_status call
\* whose target is not allowed is answered "invalid transition", on a won
\* (locked) version every transition_status call is answered "locked"; a
\* rejected call changes nothing.
C1_Transitions ==
    [][ /\ version'.status # version.status
            => <<version.status, version'.status>> \in C1_Edges
        /\ <<version.status, version'.status>> = <<"won", "submitted">>
            => \E u \in Users, r \in Reasons : unlock_version(u, CurrentVersionId, r)
        /\ \A u \in Users, t \in Targets :
              LET response == transition_status_response(u, CurrentVersionId, t)
              IN  /\ (version.status # "won"
                        /\ lower(t) \notin C1_Allowed(version.status))
                       => response = HTTPException(400, "invalid_transition")
                  /\ version.status = "won"
                       => response = HTTPException(400, "locked")
                  /\ (rejected(response) /\ transition_status(u, CurrentVersionId, t))
                       => UNCHANGED vars
      ]_vars

\* C1 happens: a transition has just made the version won, and a further
\* transition_status call, whatever its target, is answered "locked"
C1_Witness ==
    /\ version.status = "won"
    /\ last_audit.action = "status_transition"
    /\ last_audit.new_value = "won"
    /\ \A t \in Targets :
          transition_status_response("u_admin", CurrentVersionId, t)
            = HTTPException(400, "locked")

\* C2: in every reachable state the version is locked exactly when its
\* status is won.
C2_LockedIffWon ==
    version.is_locked <=> version.status = "won"

\* C2 happens: a lock request has just locked the version
C2_Witness ==
    /\ version.is_locked
    /\ version.status = "won"
    /\ Len(audit_logs) > 0
    /\ last_audit.action = "lock"

\* C3: a transition to won is rejected unless the caller is finance_reviewer
\* or admin, a transition to another target is rejected unless the caller is
\* admin, delivery_manager or business_analyst; when nothing else is wrong
\* with the request the rejection is 403; on a submitted version a request
\* for won succeeds exactly for finance_reviewer and admin, and a won version
\* was locked by such a caller.
C3_Authority ==
    /\ \A u \in Users, t \in Targets :
          LET roles == get_user_roles(u)
              response == transition_status_response(u, CurrentVersionId, t)
              authorised ==
                  IF lower(t) = "won"
                  THEN roles \cap {"finance_reviewer", "admin"} # {}
                  ELSE roles \cap {"admin", "delivery_manager", "business_analyst"} # {}
          IN  /\ ~authorised => rejected(response)
              /\ (~version.is_locked /\ lower(t) \in C1_Allowed(version.status))
                   => response = IF authorised THEN OK
                                 ELSE HTTPException(403, "forbidden")
    /\ version.status = "won"
          => get_user_roles(version.locked_by) \cap {"finance_reviewer", "admin"} # {}

\* C3 happens: the finance reviewer moved a submitted version to won, which
\* the business analyst who submitted it could not
C3_Witness ==
    /\ version.status = "won"
    /\ version.locked_by = "u_fin"
    /\ last_audit.action = "status_transition"
    /\ last_audit.user_id = "u_fin"
    /\ \E i \in 1..Len(audit_logs) :
          audit_logs[i].user_id = "u_ba" /\ audit_logs[i].new_value = "submitted"

\* C4: a step that enters won sets is_locked, locked_by (the caller of the
\* transition_status or lock_version request that made the step) and
\* locked_at in that step, and every won state carries the flag and the
\* lock metadata.
C4_WonLocksAtomically ==
    [][ /\ (version.status # "won" /\ version'.status = "won")
            => \E u \in Users :
                  /\ \/ \E t \in Targets : transition_status(u, CurrentVersionId, t)
                     \/ lock_version(u, CurrentVersionId)
                  /\ version'.is_locked
                  /\ version'.locked_by = u
                  /\ version'.locked_at \in Times
        /\ version'.status = "won"
            => /\ version'.is_locked
               /\ version'.locked_by \in Users
               /\ version'.locked_at \in Times
      ]_vars

\* C4 happens: lock_version by the admin has just made the version won
C4_Witness ==
    /\ version.status = "won"
    /\ version.is_locked
    /\ version.locked_by = "u_admin"
    /\ version.locked_at \in Times
    /\ last_audit.action = "lock"
    /\ last_audit.user_id = "u_admin"

\* C5: unlock_version succeeds exactly when the caller is admin, the reason
\* is not empty and the version is locked; it then leaves the version
\* submitted, unlocked, with locked_by and locked_at cleared; otherwise it is
\* rejected and changes nothing.
C5_Unlock ==
    [][ \A u \in Users, r \in Reasons :
          LET response == unlock_version_response(u, CurrentVersionId, r)
              granted == /\ "admin" \in get_user_roles(u)
                         /\ r \notin {NULL, ""}
                         /\ version.is_locked
          IN  /\ response = OK <=> granted
              /\ unlock_version(u, CurrentVersionId, r)
                   => IF granted
                      THEN /\ version'.status = "submitted"
                           /\ ~version'.is_locked
                           /\ version'.locked_by = NULL
                           /\ version'.locked_at = NULL
                      ELSE UNCHANGED vars
      ]_vars

\* C5 happens: the admin has just unlocked a won version, giving a reason
C5_Witness ==
    /\ version.status = "submitted"
    /\ ~version.is_locked
    /\ version.locked_by = NULL
    /\ version.locked_at = NULL
    /\ Len(audit_logs) > 0
    /\ last_audit.action = "unlock"
    /\ last_audit.user_id = "u_admin"
    /\ last_audit.reason = "client renegotiation"

(***************************************************************************)
(* Properties of the lock (Spec).                                          *)
(***************************************************************************)
\* C6 as stated: while the version is locked every mutation entry point
\* answers "locked", whatever the caller's roles and whatever else is wrong
\* with the request.
C6_LockedFirst ==
    version.is_locked =>
        \A u \in Callers :
            /\ \A d \in FeatureCreates : add_feature_response(u, d).detail = "locked"
            /\ \A fid \in FeatureIds, r \in FeatureUpdates :
                  update_feature_response(u, fid, r.data, r.justification).detail
                    = "locked"
            /\ \A fid \in FeatureIds : delete_feature_response(u, fid).detail = "locked"
            /\ \A d \in TeamMemberCreates :
                  add_team_member_response(u, d).detail = "locked"
            /\ \A mid \in MemberIds, d \in TeamMemberUpdates :
                  update_team_member_response(u, mid, d).detail = "locked"
            /\ \A mid \in MemberIds :
                  delete_team_member_response(u, mid).detail = "locked"
            /\ \A rows \in SprintPlans :
                  save_sprint_plan_response(u, rows).detail = "locked"
            /\ \A d \in VersionUpdates :
                  update_version_response(u, CurrentVersionId, d).detail = "locked"
            /\ \A t \in Targets :
                  transition_status_response(u, CurrentVersionId, t).detail = "locked"

\* what a locked version holds: its features with their allocations, its
\* team, the rates its calculations resolve, its sprint plan, its
\* contingency, reserve and notes
locked_data ==
    [features |-> features,
     effort_allocations |-> effort_allocations,
     team_members |-> team_members,
     rates |-> resolved_rates,
     sprint_plan_rows |-> sprint_plan_rows,
     contingency_pct |-> version.contingency_pct,
     management_reserve_pct |-> version.management_reserve_pct,
     notes |-> version.notes]

\* C7 as stated: no step that starts and ends with the version locked
\* changes the data of the version.
C7_Frozen ==
    [][ (version.is_locked /\ version'.is_locked) => locked_data' = locked_data ]_vars

(***************************************************************************)
(* Properties of the effort gate (SpecFeatures).                           *)
(***************************************************************************)
\* the justifications of Justifications with 10 characters or more once
\* trimmed
C8_Sufficient == { Some("scope change") }

\* C8: on an unlocked version, an update_feature request whose effort-hours
\* exceed the threshold is accepted exactly when the caller is
\* technical_architect or admin and the justification has 10 characters or
\* more once trimmed; without the role it is answered 403, with the role but
\* not the justification 400 "justification required", and a rejected
\* request leaves effort-hours, history and justification log as they were;
\* a justification row is only ever written for such a caller and
\* justification.  From 100 hours, 130 is refused to the analyst, refused to
\* the architect with "scope", accepted from the architect with
\* "scope change".
C8_Gate ==
    [][ vars' # vars =>
        /\ \A u \in Estimators, fid \in DOMAIN features, r \in FeatureUpdates :
              LET d == r.data
                  j == r.justification
                  response == update_feature_response(u, fid, d, j)
                  qualified ==
                      get_user_roles(u) \cap {"technical_architect", "admin"} # {}
                  justified == j \in C8_Sufficient
              IN  (/\ ~version.is_locked
                   /\ is_not_None(d.effort_hours)
                   /\ effort_override_exceeds_threshold(features[fid].effort_hours,
                                                        value(d.effort_hours)))
                  => /\ response = OK <=> (qualified /\ justified)
                     /\ ~qualified => response.status_code = 403
                     /\ (qualified /\ ~justified)
                          => response = HTTPException(400, "justification_required")
                     /\ (rejected(response) /\ update_feature(u, fid, d, j))
                          => UNCHANGED <<features, estimation_history,
                                         justification_logs>>
        /\ Len(justification_logs') > Len(justification_logs)
              => LET row == justification_logs'[Len(justification_logs')]
                 IN  /\ get_user_roles(row.created_by)
                            \cap {"technical_architect", "admin"} # {}
                     /\ Some(row.justification) \in C8_Sufficient
        /\ (1 \in DOMAIN features /\ features[1].effort_hours = 100
              /\ ~version.is_locked)
              => LET edit == FeatureUpdate(NULL, Some(130), None, None)
                 IN  /\ update_feature_response("u_ba", 1, edit, Some("scope change"))
                          = HTTPException(403, "approval_required")
                     /\ update_feature_response("u_ta", 1, edit, Some("scope"))
                          = HTTPException(400, "justification_required")
                     /\ update_feature_response("u_ta", 1, edit, Some("   scope    "))
                          = HTTPException(400, "justification_required")
                     /\ update_feature_response("u_ta", 1, edit, Some("scope change"))
                          = OK
      ]_vars

\* C8 happens: the architect's edit from 100 to 130 hours, justified by
\* "scope change", was accepted and logged
C8_Witness ==
    /\ Len(justification_logs) > 0
    /\ LET row == justification_logs[Len(justification_logs)]
       IN  /\ row.previous_effort = 100
           /\ row.new_effort = 130
           /\ row.created_by = "u_ta"
           /\ row.justification = "scope change"
    /\ Len(estimation_history) > 0
    /\ audit_logs[Len(audit_logs)].action = "update_feature"

\* a change of more than 15 percent of the previous effort, or any change
\* from zero
C9_Exceeds(previous_effort, new_effort) ==
    IF previous_effort = 0
    THEN new_effort # 0
    ELSE Abs(new_effort - previous_effort) * 100 > 15 * Abs(previous_effort)

\* the effort change a log row records
C9_Change(row) == <<row.feature_id, row.previous_effort, row.new_effort>>

\* the rows of the history whose change exceeds the threshold
C9_Exceeding(history) ==
    SelectSeq(history, LAMBDA row : C9_Exceeds(row.previous_effort, row.new_effort))

\* C9: an accepted effort edit appends exactly one history row, with the
\* feature's previous and new effort-hours, and one justification row if and
\* only if the change exceeds the threshold; nothing else appends to the
\* history, and in every state the justification rows are, one for one and
\* in order, the threshold-exceeding rows of the history.
C9_Logs ==
    [][ vars' # vars =>
        /\ \A u \in Estimators, fid \in FeatureIds, r \in FeatureUpdates :
              LET d == r.data
                  j == r.justification
                  previous == features[fid].effort_hours
                  new == value(d.effort_hours)
              IN  (/\ is_not_None(d.effort_hours)
                   /\ ~rejected(update_feature_response(u, fid, d, j))
                   /\ update_feature(u, fid, d, j))
                  => /\ Len(estimation_history') = Len(estimation_history) + 1
                     /\ SubSeq(estimation_history', 1, Len(estimation_history))
                          = estimation_history
                     /\ C9_Change(estimation_history'[Len(estimation_history')])
                          = <<fid, previous, new>>
                     /\ IF C9_Exceeds(previous, new)
                        THEN /\ Len(justification_logs') = Len(justification_logs) + 1
                             /\ SubSeq(justification_logs', 1, Len(justification_logs))
                                  = justification_logs
                             /\ C9_Change(justification_logs'[Len(justification_logs')])
                                  = <<fid, previous, new>>
                        ELSE justification_logs' = justification_logs
        /\ Len(estimation_history') > Len(estimation_history)
              => \E u \in Estimators, fid \in FeatureIds, r \in FeatureUpdates :
                    /\ is_not_None(r.data.effort_hours)
                    /\ ~rejected(update_feature_response(u, fid, r.data, r.justification))
                    /\ update_feature(u, fid, r.data, r.justification)
        /\ LET exceeding == C9_Exceeding(estimation_history')
           IN  /\ Len(justification_logs') = Len(exceeding)
               /\ \A i \in 1..Len(exceeding) :
                     C9_Change(justification_logs'[i]) = C9_Change(exceeding[i])
      ]_vars

\* C9 happens: two effort edits were accepted, one within the threshold and
\* one beyond it, leaving two history rows and one justification row
C9_Witness ==
    /\ Len(estimation_history) = 2
    /\ Len(justification_logs) = 1
    /\ \E i \in 1..2 : ~C9_Exceeds(estimation_history[i].previous_effort,
                                   estimation_history[i].new_effort)
    /\ audit_logs[Len(audit_logs)].action = "update_feature"

\* C10 as stated: an effort edit either appends its history row, appends its
\* justification row when the change exceeds the threshold, and sets the
\* feature's effort-hours to the new value, or does none of the three; and a
\* rejected request changes nothing.
C10_AllOrNothing ==
    [][ \A u \in Estimators, fid \in FeatureIds, r \in FeatureUpdates :
          LET d == r.data
              j == r.justification
              response == update_feature_response(u, fid, d, j)
          IN  update_feature(u, fid, d, j)
              => /\ rejected(response) => UNCHANGED vars
                 /\ (~rejected(response) /\ is_not_None(d.effort_hours))
                      => \/ /\ Len(estimation_history') = Len(estimation_history) + 1
                            /\ C9_Exceeds(features[fid].effort_hours, value(d.effort_hours))
                                 => Len(justification_logs') = Len(justification_logs) + 1
                            /\ features'[fid].effort_hours = value(d.effort_hours)
                         \/ UNCHANGED <<features, estimation_history, justification_logs>>
      ]_vars

(***************************************************************************)
(* Audit trail and logs (Spec).                                            *)
(***************************************************************************)
\* the rows of the version that the mutation handlers write
version_data ==
    <<version, features, effort_allocations, team_members, sprint_plan_rows>>

\* C11 as stated: every request that changes the version (its fields, its
\* features and their allocations, its team members, its sprint-plan rows)
\* appends exactly one audit record, which names the acting user, the action
\* kind and the affected entity.
C11_AuditEveryMutation ==
    [][ (project_found' /\ version_data' # version_data)
          => /\ Len(audit_logs') = Len(audit_logs) + 1
             /\ SubSeq(audit_logs', 1, Len(audit_logs)) = audit_logs
             /\ LET row == audit_logs'[Len(audit_logs')]
                IN  /\ row.user_id \in Users
                    /\ row.action # NULL
                    /\ row.entity_type # NULL
      ]_vars

\* log s is an initial part of log t
IsPrefix(s, t) == Len(s) <= Len(t) /\ SubSeq(t, 1, Len(s)) = s

\* C12 as stated: the estimation history, the justification log and the
\* audit log are append-only: every step leaves each of them an extension of
\* what it was, whatever the request (delete_feature and delete_project
\* included).
C12_AppendOnly ==
    [][ /\ IsPrefix(estimation_history, estimation_history')
        /\ IsPrefix(justification_logs, justification_logs')
        /\ IsPrefix(audit_logs, audit_logs')
      ]_vars

(***************************************************************************)
(* AI proposals (Spec).                                                    *)
(***************************************************************************)
\* the action of the audit row the step appended, NULL if it appended none
appended_action ==
    IF Len(audit_logs') = Len(audit_logs) + 1
    THEN audit_logs'[Len(audit_logs')].action ELSE NULL

\* C15: the AI requests change nothing, whatever the collaborator returns;
\* the features and their allocations change only in a step of add_feature,
\* update_feature or delete_feature, and the team only in a step of
\* add_team_member, update_team_member or delete_team_member, each of which
\* passed its gate and left its audit row (or the whole project is deleted).
C15_NeverAutoApplied ==
    [][ vars' # vars =>
          /\ \A u \in Callers, p \in FeatureProposals :
                /\ ai_estimate(u, p) => UNCHANGED database
                /\ \A t \in RequirementTexts :
                      ai_estimate_from_upload(u, t, p) => UNCHANGED database
          /\ \A u \in Callers, p \in TeamProposals :
                ai_suggest_team(u, p) => UNCHANGED database
          /\ (project_found' /\ <<features, effort_allocations>>'
                                  # <<features, effort_allocations>>)
                => appended_action \in {"add_feature", "update_feature", "delete_feature"}
          /\ (project_found' /\ team_members' # team_members)
                => appended_action \in {"add_team_member", "update_team_member",
                                        "delete_team_member"}
      ]_vars

\* C15 happens: the AI requests of some caller are accepted on the version,
\* and the proposed feature is in the version because add_feature put it
\* there
C15_Witness ==
    /\ \E u \in Callers : ~rejected(ai_estimate_response(u))
                           /\ ~rejected(ai_suggest_team_response(u))
    /\ \E p \in FeatureProposals :
          /\ p # <<>>
          /\ 1 \in DOMAIN features
          /\ features[1].name = p[1].name
          /\ features[1].effort_hours = p[1].effort_hours
    /\ audit_logs # <<>>
    /\ audit_logs[Len(audit_logs)].action = "add_feature"

(***************************************************************************)
(* Requests in flight (SpecConcurrent).                                    *)
(***************************************************************************)
\* C13 as stated: a mutation that read the version as unlocked is never
\* applied after the version has become locked: in a state where the version
\* is locked no step changes its features, allocations, team, sprint plan,
\* estimation history or justification log.
C13_Linearized ==
    [][ version.is_locked
          => UNCHANGED <<features, effort_allocations, team_members,
                         sprint_plan_rows, estimation_history, justification_logs>>
      ]_vars

\* the session holds an accepted effort edit that waits for its commit
C14_EffortEdit(s) ==
    /\ sessions[s].pc = "commit"
    /\ is_not_None(sessions[s].data.effort_hours)

returned(fn) == call.fn = fn /\ call.done

\* C16: the effort override test is true exactly when the new effort lies
\* more than 15 % of the previous effort above or below it, the threshold
\* itself not counting (100 to 114 or 115: no; 100 to 116: yes; and the same
\* for decreases), and, from a previous effort of 0, exactly when the new
\* effort is not 0.
C16_Threshold ==
    /\ returned("effort_override_exceeds_threshold") =>
         LET previous_effort == call.args[1]
             new_effort == call.args[2]
         IN  call.result =
               IF previous_effort = 0 THEN new_effort # 0
               ELSE \/ 100 * new_effort
                         > (100 + effort_override_threshold) * previous_effort
                    \/ 100 * new_effort
                         < (100 - effort_override_threshold) * previous_effort
    /\ ~effort_override_exceeds_threshold(100, 114)
    /\ ~effort_override_exceeds_threshold(100, 115)
    /\ effort_override_exceeds_threshold(100, 116)
    /\ ~effort_override_exceeds_threshold(100, 85)
    /\ effort_override_exceeds_threshold(100, 84)
    /\ ~effort_override_exceeds_threshold(0, 0)
    /\ effort_override_exceeds_threshold(0, 1)

\* a decrease of 16 % has been judged to exceed the threshold
C16_Witness ==
    /\ returned("effort_override_exceeds_threshold")
    /\ call.args = <<100, 84>>
    /\ call.result = TRUE

\* C17: gross_margin is undefined exactly when the revenue is 0 and otherwise
\* is (revenue - cost) / revenue * 100 rounded to two places, the nearest
\* value with a tie going away from zero; net_margin is the same function of
\* its arguments.
C17_Margin ==
    /\ returned("gross_margin") \/ returned("net_margin") =>
         LET amount == call.args[1]
             cost == call.args[2]
             exact == (amount - cost) * 10000
         IN  /\ (call.result = None) <=> (amount = 0)
             /\ amount # 0 =>
                  LET pct == value(call.result)
                      off == Abs(pct * amount - exact)
                  IN  /\ 2 * off <= Abs(amount)
                      /\ 2 * off = Abs(amount) => Abs(pct * amount) > Abs(exact)
    /\ returned("net_margin") =>
         call.result = gross_margin(call.args[1], call.args[2])

\* a margin of 0.125 % has been rounded to 0.13 %
C17_Witness ==
    /\ returned("gross_margin")
    /\ call.args = <<800, 799>>
    /\ call.result = Some(13)

\* the margin the required revenue yields, once the reverse margin call has
\* returned
round_trip == gross_margin(call.result, call.args[1])

\* C18 as stated: for every cost and every target m with 0 <= m < 100 the
\* margin of the required revenue is defined and within 0.01 of m.
C18_AsStated ==
    returned("reverse_margin_revenue") /\ call.args[2] < 10000 =>
        /\ round_trip # None
        /\ Abs(value(round_trip) - call.args[2]) <= 1

\* C18: the required revenue is 0 for a target of 100 or more; for a target
\* m with 0 <= m < 100 and a cost of at least 100.00 the margin of the
\* required revenue is defined and within 0.01 of m; for a cost of 0 the
\* required revenue is 0 and its margin is undefined.
C18_RoundTrip ==
    returned("reverse_margin_revenue") =>
        LET cost == call.args[1]
            m == call.args[2]
        IN  /\ m >= 10000 => call.result = 0
            /\ m < 10000 /\ cost >= 10000 =>
                 /\ round_trip # None
                 /\ Abs(value(round_trip) - m) <= 1
            /\ m < 10000 /\ cost = 0 => call.result = 0 /\ round_trip = None

\* a cost of 123.45 at a target of 33.33 % has come back as 33.33 %
C18_Witness ==
    /\ returned("reverse_margin_revenue")
    /\ call.args = <<12345, 3333>>
    /\ call.result = 18517
    /\ round_trip = Some(3333)

\* C19: sprints_required is 0 for a capacity of 0 or less and for no effort;
\* otherwise it is the least n with n * capacity >= effort.
C19_Ceiling ==
    returned("sprints_required") =>
        LET effort == call.args[1]
            capacity == call.args[2]
            n == call.result
        IN  /\ capacity <= 0 => n = 0
            /\ capacity > 0 /\ effort = 0 => n = 0
            /\ capacity > 0 /\ effort > 0 =>
                 /\ n * capacity >= effort
                 /\ (n - 1) * capacity < effort

\* 81 hours at 80 hours a sprint have taken two sprints
C19_Witness ==
    /\ returned("sprints_required")
    /\ call.args = <<81, 80>>
    /\ call.result = 2

\* the default rates of a role as the precedence states them: the first row
\* whose role matches case-insensitively after trimming, (0, 0) without a
\* role or a match
C20_Default(role) ==
    LET matches == {i \in DOMAIN role_default_rates :
                       lower(strip(role_default_rates[i].role)) = lower(strip(role))}
        i == CHOOSE j \in matches : \A k \in matches : j <= k
    IN  IF strip(role) = "" \/ matches = {} THEN <<0, 0>>
        ELSE <<role_default_rates[i].cost_rate_per_day,
               role_default_rates[i].billing_rate_per_day>>

\* an optional amount that is present and positive
C20_Positive(o) == o # None /\ value(o) > 0

\* C20: each side resolves to the member's rate per day when positive; else
\* to monthly rate / working days (cost) or hourly rate * hours per day
\* (billing) only when that rate and its divisor or multiplier are both
\* positive; else to the default of the member's role, matched
\* case-insensitively after trimming, and to 0 without a role or a match.
C20_Precedence ==
    /\ returned("resolve_cost_rate_per_day") =>
         LET member == call.member
         IN  call.result =
               IF C20_Positive(member.cost_rate_per_day)
               THEN value(member.cost_rate_per_day)
               ELSE IF /\ C20_Positive(member.monthly_cost_rate)
                       /\ member.working_days_per_month > 0
               THEN value(member.monthly_cost_rate) \div member.working_days_per_month
               ELSE C20_Default(member.role)[1]
    /\ returned("resolve_billing_rate_per_day") =>
         LET member == call.member
         IN  call.result =
               IF C20_Positive(member.billing_rate_per_day)
               THEN value(member.billing_rate_per_day)
               ELSE IF /\ C20_Positive(member.billing_rate)
                       /\ member.hours_per_day > 0
               THEN value(member.billing_rate) * member.hours_per_day
               ELSE C20_Default(member.role)[2]

(***************************************************************************)
(* Further properties of update_feature (SpecFeatures).                    *)
(***************************************************************************)
\* C25: on an unlocked version, an update_feature request whose effort-hours
\* do not exceed the threshold is accepted from every caller who is admin,
\* delivery_manager or business_analyst, whatever the justification, none
\* included, and is answered 403 to a caller who is none of these and not
\* technical_architect either; an accepted one is logged in the history
\* under a caller with one of the four roles.
C25_UnderThreshold ==
    [][ vars' # vars =>
        /\ \A u \in Users, fid \in DOMAIN features, r \in FeatureUpdates :
              LET d == r.data
                  response == update_feature_response(u, fid, d, r.justification)
                  editor == get_user_roles(u) \cap
                      {"admin", "delivery_manager", "business_analyst"} # {}
                  architect == "technical_architect" \in get_user_roles(u)
              IN  (/\ ~version.is_locked
                   /\ is_not_None(d.effort_hours)
                   /\ ~effort_override_exceeds_threshold(features[fid].effort_hours,
                                                         value(d.effort_hours)))
                  => /\ editor => response = OK
                     /\ (~editor /\ ~architect) => response.status_code = 403
        /\ Len(estimation_history') > Len(estimation_history)
              => LET row == estimation_history'[Len(estimation_history')]
                 IN  get_user_roles(row.changed_by) \cap
                       {"admin", "delivery_manager", "business_analyst",
                        "technical_architect"} # {}
      ]_vars

\* the analyst's edit from 100 to 110 hours, with no justification, has been
\* accepted: it is in the history and not in the justification log
C25_Witness ==
    /\ Len(estimation_history) > 0
    /\ LET row == estimation_history[Len(estimation_history)]
       IN  /\ row.previous_effort = 100
           /\ row.new_effort = 110
           /\ row.changed_by = "u_ba"
    /\ justification_logs = <<>>
    /\ audit_logs[Len(audit_logs)].action = "update_feature"
    /\ audit_logs[Len(audit_logs)].user_id = "u_ba"

\* C29 as stated: every feature's effort-hours is non-negative in every
\* state, and update_feature rejects every request whose effort-hours are
\* negative, so that no history row records a negative new effort.
C29_NonNegative ==
    [][ vars' # vars =>
        /\ \A fid \in DOMAIN features' : features'[fid].effort_hours >= 0
        /\ \A u \in Estimators, fid \in DOMAIN features, r \in FeatureUpdates :
              (is_not_None(r.data.effort_hours) /\ value(r.data.effort_hours) < 0)
                  => rejected(update_feature_response(u, fid, r.data, r.justification))
        /\ Len(estimation_history') > Len(estimation_history)
              => estimation_history'[Len(estimation_history')].new_effort >= 0
      ]_vars

\* the effort-hours base_cost and revenue consume for a feature: those of
\* its allocations when it has any, else its own
consumed_effort_hours(feature, allocations) ==
    IF allocations # <<>> THEN sum_hours(allocations) ELSE feature.effort_hours

\* C27 as stated: an accepted update_feature request that changes the
\* effort-hours consumed for the feature by more than the threshold writes a
\* justification row, under a caller who is technical_architect or admin and
\* with a justification of 10 characters or more once trimmed.
C27_ConsumedEffortGated ==
    [][ (/\ Len(audit_logs') = Len(audit_logs) + 1
         /\ audit_logs'[Len(audit_logs')].action = "update_feature") =>
        LET fid == audit_logs'[Len(audit_logs')].entity_id
            before == consumed_effort_hours(features[fid], effort_allocations[fid])
            after == consumed_effort_hours(features'[fid], effort_allocations'[fid])
        IN  effort_override_exceeds_threshold(before, after) =>
              /\ Len(justification_logs') = Len(justification_logs) + 1
              /\ LET row == justification_logs'[Len(justification_logs')]
                 IN  /\ get_user_roles(row.created_by)
                            \cap {"technical_architect", "admin"} # {}
                     /\ Some(row.justification) \in C8_Sufficient
      ]_vars

\* C28 as stated: an accepted update_feature request of a caller who is not
\* admin, delivery_manager or business_analyst leaves the name, the tasks
\* and the effort allocations of the feature as they were.
C28_OnlyEditorsChangeFields ==
    [][ (/\ Len(audit_logs') = Len(audit_logs) + 1
         /\ audit_logs'[Len(audit_logs')].action = "update_feature") =>
        LET row == audit_logs'[Len(audit_logs')]
            fid == row.entity_id
            editor == get_user_roles(row.user_id) \cap
                {"admin", "delivery_manager", "business_analyst"} # {}
        IN  ~editor =>
              /\ features'[fid].name = features[fid].name
              /\ features'[fid].tasks = features[fid].tasks
              /\ effort_allocations'[fid] = effort_allocations[fid]
      ]_vars

(***************************************************************************)
(* Properties of delete_project (Spec).                                    *)
(***************************************************************************)
\* C30: delete_project on an existing project is accepted exactly when the
\* caller is admin, delivery_manager, business_analyst or finance_reviewer
\* and the version is draft and not locked, is answered 403 without the role
\* and 400 in review, submitted or won or when locked; the project is removed
\* only in a step that starts from a draft, unlocked version, and every step
\* that starts from another status or a locked version leaves the project
\* in place.
C30_DeleteOnlyDraft ==
    [][ vars' # vars =>
        /\ \A u \in Users :
              LET response == delete_project_response(u)
                  authority == get_user_roles(u) \cap
                      {"admin", "delivery_manager", "business_analyst",
                       "finance_reviewer"} # {}
                  deletable == version.status = "draft" /\ ~version.is_locked
              IN  project_found =>
                    /\ response = OK <=> (authority /\ deletable)
                    /\ ~authority => response.status_code = 403
                    /\ (authority /\ ~deletable) => response.status_code = 400
        /\ (project_found /\ ~project_found')
              => version.status = "draft" /\ ~version.is_locked
        /\ (project_found /\ (version.status # "draft" \/ version.is_locked))
              => project_found'
      ]_vars

\* the project, which had a feature, has been deleted, and with it its audit
\* rows
C30_Witness ==
    /\ ~project_found
    /\ audit_logs = <<>>
    /\ features = <<>>
    /\ next_id.feature > 0

(***************************************************************************)
(* Properties of concurrent lifecycle requests (SpecRace).                 *)
(***************************************************************************)
\* C26 as stated: whatever the interleaving of transition_status,
\* lock_version and unlock_version requests, the version is locked exactly
\* when its status is won, with a locking actor exactly when locked.
C26_LockedIffWonInterleaved ==
    /\ version.is_locked <=> version.status = "won"
    /\ version.is_locked <=> version.locked_by # NULL

(***************************************************************************)
(* Further properties of the calculation engine (SpecEngine).              *)
(***************************************************************************)
\* C23: cost_with_buffers returns the base unchanged, as risk buffer
\* base * contingency / 100 + base * reserve / 100 rounded to the cent with a
\* tie going up, and as total the base plus the risk buffer; the total is
\* not below the base, and with both percentages 0 the buffer is 0 and the
\* total is the base.
C23_Buffers ==
    returned("cost_with_buffers") =>
        LET base == call.args[1]
            contingency_pct == call.args[2]
            reserve_pct == call.args[3]
            risk_buffer == call.result[2]
            total == call.result[3]
            exact == base * contingency_pct + base * reserve_pct
            off == Abs(risk_buffer * 10000 - exact)
        IN  /\ call.result[1] = base
            /\ 2 * off <= 10000
            /\ 2 * off = 10000 => risk_buffer * 10000 > exact
            /\ total = base + risk_buffer
            /\ total >= base
            /\ (contingency_pct = 0 /\ reserve_pct = 0) =>
                 risk_buffer = 0 /\ total = base

\* 0.20 with 2.5 % contingency and no reserve: the buffer of half a cent has
\* been rounded up to a cent
C23_Witness ==
    /\ returned("cost_with_buffers")
    /\ call.args = <<20, 250, 0>>
    /\ call.result = <<20, 1, 21>>

\* one Developer at 500 a day, 8 hours a day, 80 % utilization, and one
\* feature of 80 hours without allocations: 6875.00
base_cost_example ==
    ( /\ returned("base_cost")
      /\ team_members = <<Member(RoleDev, Some(500), Some(800), 8, 80)>>
      /\ Len(features) = 1 /\ features[1].effort_hours = 80
      /\ effort_allocations[1] = <<>> )
    => call.result = 687500

\* C21: a feature without allocations is charged to the first member of a
\* non-empty team alone: effort hours * contingency multiplier of that
\* member's role * that member's cost per day / (hours per day *
\* utilization), and nothing when the hours or the utilization are not
\* positive; the members after the first have no part in it; one Developer
\* at 500 a day, 8 hours, 80 %, and one feature of 80 hours give 6875.00
C21_FirstMemberAlone ==
    /\ base_cost_example
    /\ ( /\ returned("base_cost")
         /\ team_members # <<>>
         /\ \A f \in DOMAIN features : effort_allocations[f] = <<>> )
       => LET m0 == team_members[1]
              hours_per_day == IF m0.hours_per_day # 0 THEN m0.hours_per_day ELSE 8
              scaled == total_effort_hours(features)
                            * task_contingency_multiplier(m0.role)
                            * resolve_cost_rate_per_day(m0) * 100
          IN  call.result =
                  IF hours_per_day > 0 /\ m0.utilization_pct > 0
                  THEN round(scaled, hours_per_day * m0.utilization_pct)
                  ELSE 0

\* the Developer of the example followed by a member with another role,
\* rate, hours and utilization: the 80 hours still cost 6875.00
C21_Witness ==
    /\ returned("base_cost")
    /\ team_members = <<Member(RoleDev, Some(500), Some(800), 8, 80),
                        Member("Senior Developer", Some(600), Some(1000), 10, 50)>>
    /\ Len(features) = 1 /\ features[1].effort_hours = 80
    /\ effort_allocations[1] = <<>>
    /\ call.result = 687500

\* the hours per day revenue takes from a member: its own, or 8 when unset
billing_hours(m) ==
    IF m.hours_per_day # 0 THEN m.hours_per_day ELSE 8

\* C22: revenue by revenue model.  Fixed: the project's fixed revenue as it
\* is, 0 when unset.  Milestone: the sum of the amounts supplied, 0 when none
\* are.  Time and materials, rounded to cents: features without allocations
\* are billed effort hours / hours per day * billing per day of the first
\* member (nothing with an empty team); an allocation is billed with the
\* hours per day and rate of the first member of its role, and with the
\* default rate of the role and an 8-hour day when no member has that role
C22_RevenueByModel ==
    returned("revenue") =>
        LET project == call.project
            amounts == call.milestone_amounts
            unallocated == \A f \in DOMAIN features : effort_allocations[f] = <<>>
            one_allocation == /\ Len(features) = 1
                              /\ Len(effort_allocations[1]) = 1
            alloc == effort_allocations[1][1]
            with_role == {i \in DOMAIN team_members : team_members[i].role = alloc.role}
        IN  /\ project.revenue_model = "fixed" =>
                call.result = IF project.fixed_revenue = None THEN 0
                              ELSE value(project.fixed_revenue)
            /\ project.revenue_model = "milestone" =>
                /\ amounts = None => call.result = 0
                /\ amounts = Some(<<>>) => call.result = 0
                /\ amounts = Some(<<100, 250>>) => call.result = 350
            /\ (project.revenue_model = "t_m" /\ unallocated /\ team_members = <<>>) =>
                call.result = 0
            /\ (project.revenue_model = "t_m" /\ unallocated /\ team_members # <<>>) =>
                LET m0 == team_members[1]
                IN  call.result =
                      IF billing_hours(m0) > 0
                      THEN round(total_effort_hours(features)
                                    * resolve_billing_rate_per_day(m0) * 100,
                                 billing_hours(m0))
                      ELSE 0
            /\ (project.revenue_model = "t_m" /\ one_allocation /\ with_role = {}) =>
                call.result = round(alloc.effort_hours
                                       * get_bu_rate_for_role(alloc.role)[2] * 100, 8)
            /\ (project.revenue_model = "t_m" /\ one_allocation /\ with_role # {}) =>
                \E i \in with_role :
                    /\ \A j \in with_role : i <= j
                    /\ call.result =
                         IF billing_hours(team_members[i]) > 0
                         THEN round(alloc.effort_hours
                                       * resolve_billing_rate_per_day(team_members[i]) * 100,
                                    billing_hours(team_members[i]))
                         ELSE 0

\* time and materials, 40 hours allocated to QA at the default 800 a day: a
\* QA member of 4 hours a day bills 10 days
C22_Witness ==
    /\ returned("revenue")
    /\ call.project.revenue_model = "t_m"
    /\ Len(features) = 1 /\ Len(effort_allocations[1]) = 1
    /\ effort_allocations[1][1].role = RoleQA
    /\ team_members = <<Member(RoleDev, Some(500), Some(800), 8, 80),
                        Member(RoleQA, None, None, 4, 100)>>
    /\ role_default_rates # <<>>
    /\ call.result = 800000

\* the same allocation with no QA member in the team: the 8-hour day, 5 days
C22_WitnessNoMember ==
    /\ returned("revenue")
    /\ call.project.revenue_model = "t_m"
    /\ Len(features) = 1 /\ Len(effort_allocations[1]) = 1
    /\ effort_allocations[1][1].role = RoleQA
    /\ team_members = <<Member(RoleDev, Some(500), Some(800), 8, 80)>>
    /\ role_default_rates # <<>>
    /\ call.result = 400000

\* C24: a call whose denominator is zero or negative returns the sentinel:
\* 0 from cost_per_day and base_cost for such a utilization, from
\* sprints_required for such a capacity, from reverse_margin_billing_rate for
\* such an effort, from reverse_margin_revenue for a target of 100 or more and
\* from revenue for such hours per day, and no margin for a revenue of 0; and
\* base_cost and revenue return 0 for an empty team or no features
C24_Guarded ==
    LET unallocated == \A f \in DOMAIN features : effort_allocations[f] = <<>>
        empty == features = <<>> \/ (team_members = <<>> /\ unallocated)
    IN  /\ (returned("cost_per_day") /\ call.member.utilization_pct <= 0) =>
              call.result = 0
        /\ ( /\ returned("base_cost") /\ unallocated /\ team_members # <<>>
             /\ team_members[1].utilization_pct <= 0 ) => call.result = 0
        /\ (returned("sprints_required") /\ call.args[2] <= 0) => call.result = 0
        /\ (returned("reverse_margin_billing_rate") /\ call.args[2] <= 0) =>
              call.result = 0
        /\ (returned("reverse_margin_revenue") /\ call.args[2] >= 10000) =>
              call.result = 0
        /\ ( /\ returned("revenue") /\ call.project.revenue_model = "t_m"
             /\ unallocated /\ team_members # <<>>
             /\ team_members[1].hours_per_day < 0 ) => call.result = 0
        /\ (returned("gross_margin") /\ call.args[1] = 0) => call.result = None
        /\ (returned("base_cost") /\ empty) => call.result = 0
        /\ ( /\ returned("revenue") /\ call.project.revenue_model = "t_m"
             /\ empty ) => call.result = 0

====
